---- MODULE Spec2Model ----
(***************************************************************************)
(* Tensorwerk physics engine: the RiemannManifold cache of derived         *)
(* tensors (Christoffel symbols, Riemann tensor, Ricci tensor, Ricci       *)
(* scalar), its singularity detector, the 4x4 inversion it rests on and    *)
(* the geodesic solver that reads the cached Christoffel symbols.          *)
(*                                                                         *)
(* Arithmetic.  The code computes in IEEE double.  The model computes in   *)
(* decimal floating point with Precision significant digits: a number is   *)
(* a record [m, e] standing for m * 10^e, with 10^(Precision-1) <= |m| <   *)
(* 10^Precision, or m = 0 and e = 0.  Every operation computes the exact   *)
(* result and rounds it to Precision digits (half away from zero), so      *)
(* absorption (1 + 1e-24 = 1), cancellation and the failure of x / y * y   *)
(* = x are all present, at a lower precision than the code's 53 bits.      *)
(* Tensors are flattened exactly as in the code (index i * 4 + j, ...).    *)
(***************************************************************************)
EXTENDS Integers, Sequences, FiniteSets, TLC

\* ------------------------------------------------------------------------
\* double: decimal floating point
\* ------------------------------------------------------------------------

\* significant decimal digits kept by the model's double
Precision == 4

Pow10 == [k \in 0..9 |-> 10^k]

MantMin == Pow10[Precision - 1]

MantLim == Pow10[Precision]

IAbs(n) == IF n < 0 THEN -n ELSE n

ISign(n) == IF n < 0 THEN -1 ELSE 1

NumDigits(n) ==
    IF n < 10 THEN 1
    ELSE IF n < 100 THEN 2
    ELSE IF n < 1000 THEN 3
    ELSE IF n < 10000 THEN 4
    ELSE IF n < 100000 THEN 5
    ELSE IF n < 1000000 THEN 6
    ELSE IF n < 10000000 THEN 7
    ELSE IF n < 100000000 THEN 8
    ELSE IF n < 1000000000 THEN 9
    ELSE 10

Zero == [m |-> 0, e |-> 0]

\* the double nearest to m * 10^e
Flt(m, e) ==
    IF m = 0 THEN Zero
    ELSE LET a == IAbs(m)
             s == ISign(m)
             d == NumDigits(a)
         IN  IF d <= Precision
             THEN [m |-> s * a * Pow10[Precision - d], e |-> e - (Precision - d)]
             ELSE LET k == d - Precision
                      q == a \div Pow10[k]
                      r == a % Pow10[k]
                      up == IF 2 * r >= Pow10[k] THEN q + 1 ELSE q
                  IN  IF up = MantLim
                      THEN [m |-> s * MantMin, e |-> e + k + 1]
                      ELSE [m |-> s * up, e |-> e + k]

One == Flt(1, 0)

Two == Flt(2, 0)

Neg(a) == [m |-> -a.m, e |-> a.e]

FAbs(a) == [m |-> IAbs(a.m), e |-> a.e]

\* a + b: exact sum of the two, rounded; the smaller operand is absorbed
\* when it lies more than Precision + 1 digits below the larger
Add(a, b) ==
    IF a.m = 0 THEN b
    ELSE IF b.m = 0 THEN a
    ELSE LET hi == IF a.e >= b.e THEN a ELSE b
             lo == IF a.e >= b.e THEN b ELSE a
             gap == hi.e - lo.e
         IN  IF gap > Precision + 1 THEN hi
             ELSE Flt(hi.m * Pow10[gap] + lo.m, lo.e)

Sub(a, b) == Add(a, Neg(b))

Mul(a, b) ==
    IF a.m = 0 \/ b.m = 0 THEN Zero
    ELSE Flt(a.m * b.m, a.e + b.e)

\* a / b for b # 0 (the code never divides by a zero it has not tested,
\* except where noted at the call)
Div(a, b) ==
    IF a.m = 0 THEN Zero
    ELSE Flt(ISign(a.m) * ISign(b.m) * ((IAbs(a.m) * Pow10[Precision + 1]) \div IAbs(b.m)),
             a.e - b.e - (Precision + 1))

Lt(a, b) == Sub(a, b).m < 0

Gt(a, b) == Sub(a, b).m > 0

Le(a, b) == Sub(a, b).m <= 0

RECURSIVE ISqrtFrom(_, _)
\* Newton iteration for the integer square root of n, from the guess x >= isqrt(n)
ISqrtFrom(n, x) ==
    LET y == (x + n \div x) \div 2
    IN  IF y >= x THEN x ELSE ISqrtFrom(n, y)

ISqrt(n) == IF n = 0 THEN 0 ELSE ISqrtFrom(n, n)

\* std::sqrt for a >= 0
Sqrt(a) ==
    IF a.m = 0 THEN Zero
    ELSE LET odd == (a.e % 2) # 0
             mm == IF odd THEN a.m * 10 ELSE a.m
             ee == IF odd THEN a.e - 1 ELSE a.e
         IN  Flt(ISqrt(mm * Pow10[4]), (ee - 4) \div 2)

\* v evaluated once, then F applied to its value: a local variable of the code
Eval(v, F(_)) == CHOOSE y \in {F(x) : x \in {v}} : TRUE

\* ------------------------------------------------------------------------
\* constants (namespace tensorwerk::constants) and literals of the code
\* ------------------------------------------------------------------------

C_LIGHT == Flt(299792458, 0)

G_NEWTON == Flt(667430, -16)

EPSILON_LIQUIDITY == Flt(1, -6)

SINGULARITY_THRESHOLD == Flt(95, -2)

\* the pivot test "std::abs(pivot_val) < 1e-10"
PIVOT_EPSILON == Flt(1, -10)

Half == Flt(5, -1)

\* ------------------------------------------------------------------------
\* Tensor<double, Dims...>: flattened arrays, zero-filled on construction
\* ------------------------------------------------------------------------

Idx4 == 0..3

ZeroTensor(n) == [x \in 0..(n - 1) |-> Zero]

\* sum += f[0]; ...; sum += f[3], starting from 0.0, in the code's order
Sum4(f) == Add(Add(Add(Add(Zero, f[0]), f[1]), f[2]), f[3])

\* the Minkowski metric the constructor stores
FlatMetric ==
    [x \in 0..15 |->
        IF x = 0 THEN Neg(One)
        ELSE IF x \div 4 = x % 4 THEN One
        ELSE Zero]

\* ------------------------------------------------------------------------
\* 4x4 inversion: Gauss-Jordan elimination with partial pivoting
\* ------------------------------------------------------------------------

RECURSIVE PivotScan_Signed(_, _, _, _)
\* a scan that compares the entries themselves instead of their magnitudes
PivotScan_Signed(result, i, j, pivot) ==
    IF j >= 4 THEN pivot
    ELSE PivotScan_Signed(result, i, j + 1,
            IF Gt(result[j * 4 + i], result[pivot * 4 + i]) THEN j ELSE pivot)

RECURSIVE PivotScan(_, _, _, _)
\* for (j = i + 1; j < 4; ++j) if (|result[j][i]| > |result[pivot][i]|) pivot = j
PivotScan(result, i, j, pivot) ==
    IF j >= 4 THEN pivot
    ELSE PivotScan(result, i, j + 1,
                   IF Gt(FAbs(result[j * 4 + i]), FAbs(result[pivot * 4 + i]))
                   THEN j ELSE pivot)

PivotRow(result, i) == PivotScan(result, i, i + 1, i)

\* std::swap of rows i and p, all four columns
SwapRows(t, i, p) ==
    [x \in 0..15 |->
        IF x \div 4 = i THEN t[p * 4 + (x % 4)]
        ELSE IF x \div 4 = p THEN t[i * 4 + (x % 4)]
        ELSE t[x]]

\* row i divided by the pivot value
ScaleRow(t, i, pivot_val) ==
    [x \in 0..15 |-> IF x \div 4 = i THEN Div(t[x], pivot_val) ELSE t[x]]

\* row j -= factor[j] * row i for every j # i; factor[j] is column i of row j,
\* read before row j changes
EliminateRows(t, factor, i) ==
    [x \in 0..15 |->
        IF x \div 4 = i THEN t[x]
        ELSE Sub(t[x], Mul(factor[(x \div 4) * 4 + i], t[i * 4 + (x % 4)]))]

Identity4 == [x \in 0..15 |-> IF x \div 4 = x % 4 THEN One ELSE Zero]

\* the pivot test of elimination step i: TRUE when the code throws
PivotTooSmall(pivot_val) == Lt(FAbs(pivot_val), PIVOT_EPSILON)

\* one iteration of the elimination loop, for column i
GaussStep(result, inverse, i) ==
    Eval(PivotRow(result, i), LAMBDA pivot :
    Eval(IF pivot # i THEN SwapRows(result, i, pivot) ELSE result, LAMBDA r1 :
    Eval(IF pivot # i THEN SwapRows(inverse, i, pivot) ELSE inverse, LAMBDA v1 :
    Eval(r1[i * 4 + i], LAMBDA pivot_val :
        IF PivotTooSmall(pivot_val)
        THEN [threw |-> TRUE, pivot |-> pivot, pivot_val |-> pivot_val,
              result |-> r1, inverse |-> v1]
        ELSE Eval(ScaleRow(r1, i, pivot_val), LAMBDA r2 :
             Eval(ScaleRow(v1, i, pivot_val), LAMBDA v2 :
                [threw |-> FALSE, pivot |-> pivot, pivot_val |-> pivot_val,
                 result |-> EliminateRows(r2, r2, i),
                 inverse |-> EliminateRows(v2, r2, i)]))))))

RECURSIVE GaussJordan(_, _, _)
\* elimination steps i..3 on the pair (result, inverse); threw is the
\* std::runtime_error("Singular matrix"), step the i at which it was thrown
GaussJordan(result, inverse, i) ==
    IF i >= 4 THEN [threw |-> FALSE, step |-> 4, inv |-> inverse]
    ELSE Eval(GaussStep(result, inverse, i), LAMBDA st :
            IF st.threw THEN [threw |-> TRUE, step |-> i, inv |-> inverse]
            ELSE GaussJordan(st.result, st.inverse, i + 1))

\* tensor::invert_matrix_4x4
invert_matrix_4x4(m) == GaussJordan(m, Identity4, 0)

\* RiemannManifold::invert_matrix, the same algorithm on a MetricTensor
invert_matrix(m) == GaussJordan(m, Identity4, 0)

RECURSIVE ContractSum(_, _, _, _, _, _, _, _)
\* sum += A[i * contraction_dim + k] * B[k * rank + j], for k = 0, 1, ...
ContractSum(A, B, rank, contraction_dim, i, j, k, sum) ==
    IF k >= contraction_dim THEN sum
    ELSE ContractSum(A, B, rank, contraction_dim, i, j, k + 1,
                     Add(sum, Mul(A[i * contraction_dim + k], B[k * rank + j])))

\* tensor::contract_indices; Size is A.size()
contract_indices(A, B, rank, contraction_dim) ==
    [x \in DOMAIN A |->
        IF x < rank * rank
        THEN ContractSum(A, B, rank, contraction_dim, x \div rank, x % rank, 0, Zero)
        ELSE Zero]

\* the nine entries of m outside row row_skip and column col_skip, row by row
SubMatrix(m, row_skip, col_skip) ==
    LET rows == [n \in 0..2 |-> IF n < row_skip THEN n ELSE n + 1]
        cols == [n \in 0..2 |-> IF n < col_skip THEN n ELSE n + 1]
    IN  [x \in 0..8 |-> m[rows[x \div 3] * 4 + cols[x % 3]]]

\* tensor::compute_minor_3x3
compute_minor_3x3(m, row_skip, col_skip) ==
    Eval(SubMatrix(m, row_skip, col_skip), LAMBDA sub :
        Add(Sub(Mul(sub[0], Sub(Mul(sub[4], sub[8]), Mul(sub[5], sub[7]))),
                Mul(sub[1], Sub(Mul(sub[3], sub[8]), Mul(sub[5], sub[6])))),
            Mul(sub[2], Sub(Mul(sub[3], sub[7]), Mul(sub[4], sub[6])))))

\* tensor::determinant_4x4: cofactor expansion along the first row
determinant_4x4(m) ==
    Sum4([j \in Idx4 |->
            Mul(Mul(IF j % 2 = 0 THEN One ELSE Neg(One), m[j]),
                compute_minor_3x3(m, 0, j))])

\* ------------------------------------------------------------------------
\* RiemannManifold: metric update and the derivation chain
\* ------------------------------------------------------------------------

\* potential[i] = -G_NEWTON * capital_density[i] / sqrt(capital_density[i] + EPSILON_LIQUIDITY)
Potential(capital_density, i) ==
    Div(Mul(Neg(G_NEWTON), capital_density[i]),
        Sqrt(Add(capital_density[i], EPSILON_LIQUIDITY)))

\* total_mass after the first loop
TotalMass(capital_density) == Sum4(capital_density)

\* sqrt of the sum of squares of flow_field[i]
FluxMagnitude(flow_field, i) ==
    Sqrt(Sum4([j \in Idx4 |-> Mul(flow_field[i][j], flow_field[i][j])]))

\* the inner product of flow_field[i] and flow_field[j]
CrossTerm(flow_field, i, j) ==
    Sum4([k \in Idx4 |-> Mul(flow_field[i][k], flow_field[j][k])])

C_SQUARED == Mul(C_LIGHT, C_LIGHT)

\* an update that assigns the diagonal and the upper triangle only
UpdatedMetric_KeepsLowerTriangle(old, capital_density, flow_field) ==
    [x \in 0..15 |->
        LET i == x \div 4
            j == x % 4
        IN  IF x = 0
            THEN Neg(Add(One, Div(Mul(Two, Potential(capital_density, 0)), C_SQUARED)))
            ELSE IF i = j
            THEN Add(Sub(One, Div(Mul(Two, Potential(capital_density, i)), C_SQUARED)),
                     Div(FluxMagnitude(flow_field, i),
                         Add(TotalMass(capital_density), EPSILON_LIQUIDITY)))
            ELSE IF i < j
            THEN Div(CrossTerm(flow_field, i, j), C_SQUARED)
            ELSE old[x]]

\* the metric after update_metric's assignments to the metric `old`
UpdatedMetric(old, capital_density, flow_field) ==
    [x \in 0..15 |->
        LET i == x \div 4
            j == x % 4
        IN  IF x = 0
            THEN Neg(Add(One, Div(Mul(Two, Potential(capital_density, 0)), C_SQUARED)))
            ELSE IF i = j
            THEN Add(Sub(One, Div(Mul(Two, Potential(capital_density, i)), C_SQUARED)),
                     Div(FluxMagnitude(flow_field, i),
                         Add(TotalMass(capital_density), EPSILON_LIQUIDITY)))
            ELSE IF i < j
            THEN Div(CrossTerm(flow_field, i, j), C_SQUARED)
            ELSE IF j < i
            THEN Div(CrossTerm(flow_field, j, i), C_SQUARED)
            ELSE old[x]]

\* a derivative that populates d g_mu,mu / d x^mu for every direction
derivative_metric_EveryDirection(metric, mu) ==
    [x \in 0..15 |-> IF x = mu * 4 + mu THEN Flt(1, -2) ELSE Zero]

\* derivative_metric(metric, mu): only d g_00 / dt is ever populated
derivative_metric(metric, mu) ==
    [x \in 0..15 |-> IF mu = 0 /\ x = 0 THEN Flt(1, -2) ELSE Zero]

\* the loop body of compute_christoffel_symbols for (k, i, j)
ChristoffelEntry(g_inv, dg, k, i, j) ==
    Mul(Half,
        Sum4([l \in Idx4 |->
                Mul(g_inv[k * 4 + l],
                    Sub(Add(dg[j][i * 4 + l], dg[i][j * 4 + l]), dg[l][i * 4 + j]))]))

ChristoffelFrom(g_inv, metric) ==
    LET dg == [mu \in Idx4 |-> derivative_metric(metric, mu)]
    IN  [x \in 0..63 |->
            ChristoffelEntry(g_inv, dg, x \div 16, (x \div 4) % 4, x % 4)]

\* dgamma[mu][rho][sigma][nu] = (gamma_plus - gamma_minus) / (2.0 * h), h = 1e-6,
\* both read from the same slot of christoffel_
DGamma(christoffel, mu, x) ==
    Div(Sub(christoffel[x], christoffel[x]), Mul(Two, Flt(1, -6)))

\* a loop body that adds the second quadratic term instead of subtracting it
RiemannEntry_AddsTerm4(christoffel, rho, sigma, mu, nu) ==
    LET term3 == Sum4([lambda \in Idx4 |->
                        Mul(christoffel[rho * 16 + mu * 4 + lambda],
                            christoffel[lambda * 16 + nu * 4 + sigma])])
        term4 == Sum4([lambda \in Idx4 |->
                        Mul(christoffel[rho * 16 + nu * 4 + lambda],
                            christoffel[lambda * 16 + mu * 4 + sigma])])
    IN  Add(term3, term4)

\* the loop body of compute_riemann_tensor for (rho, sigma, mu, nu)
RiemannEntry(christoffel, rho, sigma, mu, nu) ==
    LET term1 == DGamma(christoffel, mu, rho * 16 + nu * 4 + sigma)
        term2 == Neg(DGamma(christoffel, nu, rho * 16 + mu * 4 + sigma))
        term3 == Sum4([lambda \in Idx4 |->
                        Mul(christoffel[rho * 16 + mu * 4 + lambda],
                            christoffel[lambda * 16 + nu * 4 + sigma])])
        term4 == Sum4([lambda \in Idx4 |->
                        Mul(christoffel[rho * 16 + nu * 4 + lambda],
                            christoffel[lambda * 16 + mu * 4 + sigma])])
    IN  Sub(Add(Add(term1, term2), term3), term4)

RiemannFrom(christoffel) ==
    [x \in 0..255 |->
        RiemannEntry(christoffel, x \div 64, (x \div 16) % 4, (x \div 4) % 4, x % 4)]

\* R_mu_nu = sum over lambda of riemann[lambda][mu][lambda][nu]
RicciFrom(riemann) ==
    [x \in 0..15 |->
        Sum4([lambda \in Idx4 |->
                riemann[lambda * 64 + (x \div 4) * 16 + lambda * 4 + (x % 4)]])]

RECURSIVE ScalarSum(_, _, _, _)
\* scalar += g_inv[x] * ricci[x] for x = 0..15, in order
ScalarSum(g_inv, ricci, x, acc) ==
    IF x > 15 THEN acc
    ELSE ScalarSum(g_inv, ricci, x + 1, Add(acc, Mul(g_inv[x], ricci[x])))

ScalarFrom(g_inv, ricci) == ScalarSum(g_inv, ricci, 0, Zero)

\* the result of a call: the manifold after it, whether it threw, what it returned
Returned(s, value) == [s |-> s, threw |-> FALSE, value |-> value]

Thrown(s) == [s |-> s, threw |-> TRUE, value |-> <<>>]

\* a variant that marks the symbols valid before the metric is inverted
compute_christoffel_symbols_FlagFirst(s) ==
    IF s.christoffel_valid_ THEN Returned(s, s.christoffel_)
    ELSE Eval(invert_matrix(s.metric_), LAMBDA g_inv :
            IF g_inv.threw THEN Thrown([s EXCEPT !.christoffel_valid_ = TRUE])
            ELSE Eval(ChristoffelFrom(g_inv.inv, s.metric_), LAMBDA gamma :
                    Returned([s EXCEPT !.christoffel_ = gamma,
                                       !.christoffel_valid_ = TRUE,
                                       !.computed.christoffel = @ + 1],
                             gamma)))

compute_christoffel_symbols(s) ==
    IF s.christoffel_valid_ THEN Returned(s, s.christoffel_)
    ELSE Eval(invert_matrix(s.metric_), LAMBDA g_inv :
            IF g_inv.threw THEN Thrown(s)
            ELSE Eval(ChristoffelFrom(g_inv.inv, s.metric_), LAMBDA gamma :
                    Returned([s EXCEPT !.christoffel_ = gamma,
                                       !.christoffel_valid_ = TRUE,
                                       !.computed.christoffel = @ + 1],
                             gamma)))

\* a compute_riemann_tensor that does not ask for the Christoffel symbols first
compute_riemann_tensor_SkipsChristoffel(s) ==
    IF s.riemann_valid_ THEN Returned(s, s.riemann_)
    ELSE Eval(RiemannFrom(s.christoffel_), LAMBDA riem :
            Returned([s EXCEPT !.riemann_ = riem,
                               !.riemann_valid_ = TRUE,
                               !.computed.riemann = @ + 1],
                     riem))

compute_riemann_tensor(s) ==
    Eval(IF ~s.christoffel_valid_ THEN compute_christoffel_symbols(s)
         ELSE Returned(s, s.christoffel_), LAMBDA c :
        IF c.threw THEN Thrown(c.s)
        ELSE IF c.s.riemann_valid_ THEN Returned(c.s, c.s.riemann_)
        ELSE Eval(RiemannFrom(c.s.christoffel_), LAMBDA riem :
                Returned([c.s EXCEPT !.riemann_ = riem,
                                     !.riemann_valid_ = TRUE,
                                     !.computed.riemann = @ + 1],
                         riem)))

compute_ricci_tensor(s) ==
    Eval(IF ~s.riemann_valid_ THEN compute_riemann_tensor(s)
         ELSE Returned(s, s.riemann_), LAMBDA r :
        IF r.threw THEN Thrown(r.s)
        ELSE IF r.s.ricci_valid_ THEN Returned(r.s, r.s.ricci_)
        ELSE Eval(RicciFrom(r.s.riemann_), LAMBDA ric :
                Returned([r.s EXCEPT !.ricci_ = ric,
                                     !.ricci_valid_ = TRUE,
                                     !.computed.ricci = @ + 1],
                         ric)))

compute_ricci_scalar(s) ==
    Eval(IF ~s.ricci_valid_ THEN compute_ricci_tensor(s)
         ELSE Returned(s, s.ricci_), LAMBDA r :
        IF r.threw THEN Thrown(r.s)
        ELSE Eval(invert_matrix(r.s.metric_), LAMBDA g_inv :
                IF g_inv.threw THEN Thrown(r.s)
                ELSE Eval(ScalarFrom(g_inv.inv, r.s.ricci_), LAMBDA scalar :
                        Returned([r.s EXCEPT !.ricci_scalar_ = scalar,
                                             !.computed.scalar = @ + 1],
                                 scalar))))

\* the location pushed for a detected singularity
Origin == <<Zero, Zero, Zero, Zero>>

\* r_s as detect_singularities computes it for the log line
SchwarzschildRadius(R) ==
    LET mass_eq == Div(Mul(Mul(FAbs(R), C_LIGHT), C_LIGHT), Mul(Two, G_NEWTON))
    IN  Div(Mul(Mul(Two, G_NEWTON), mass_eq), C_SQUARED)

\* a test that also fires on the threshold itself
ExceedsThreshold_Inclusive(R) == ~Lt(FAbs(R), SINGULARITY_THRESHOLD)

\* the threshold test of detect_singularities
ExceedsThreshold(R) == Gt(FAbs(R), SINGULARITY_THRESHOLD)

\* detect_singularities after R is known: the list returned and the radius
\* written to the log
DetectOutcome(R) ==
    IF ExceedsThreshold(R)
    THEN [value |-> <<Origin>>, R |-> R, logged |-> <<SchwarzschildRadius(R)>>]
    ELSE [value |-> <<>>, R |-> R, logged |-> <<>>]

detect_singularities(s) ==
    Eval(compute_ricci_scalar(s), LAMBDA R :
        IF R.threw THEN Thrown(R.s)
        ELSE Eval(DetectOutcome(R.value), LAMBDA out :
                [s |-> R.s, threw |-> FALSE, value |-> out.value,
                 R |-> out.R, logged |-> out.logged]))

\* ------------------------------------------------------------------------
\* GeodesicSolver::solve (riemann_manifold.cpp)
\* ------------------------------------------------------------------------

\* const ChristoffelSymbols& christoffel() const { return christoffel_; }
christoffel(s) == s.christoffel_

RECURSIVE RhsSum(_, _, _, _, _)
\* sum += gamma[mu][alpha][beta] * velocity[alpha] * velocity[beta], x = alpha * 4 + beta
RhsSum(gamma, velocity, mu, x, acc) ==
    IF x > 15 THEN acc
    ELSE RhsSum(gamma, velocity, mu, x + 1,
                Add(acc, Mul(Mul(gamma[mu * 16 + x], velocity[x \div 4]), velocity[x % 4])))

\* GeodesicSolver::geodesic_rhs: the acceleration, from the manifold's christoffel()
geodesic_rhs(s, point, velocity) ==
    Eval(christoffel(s), LAMBDA gamma :
        [mu \in Idx4 |-> Neg(RhsSum(gamma, velocity, mu, 0, Zero))])

\* temp_v = current_velocity; temp_v[i] += c * k[i]
Nudged(current_velocity, c, k) ==
    [i \in Idx4 |-> Add(current_velocity[i], Mul(c, k[i]))]

\* the velocity after one loop iteration
SteppedVelocity(s, current, current_velocity, step_size) ==
    Eval(geodesic_rhs(s, current, current_velocity), LAMBDA k1_v :
    Eval(geodesic_rhs(s, current, Nudged(current_velocity, Mul(Half, step_size), k1_v)), LAMBDA k2_v :
    Eval(geodesic_rhs(s, current, Nudged(current_velocity, Mul(Half, step_size), k2_v)), LAMBDA k3_v :
    Eval(geodesic_rhs(s, current, Nudged(current_velocity, step_size, k3_v)), LAMBDA k4_v :
        [i \in Idx4 |->
            Add(current_velocity[i],
                Mul(Div(step_size, Flt(6, 0)),
                    Add(Add(Add(k1_v[i], Mul(Two, k2_v[i])), Mul(Two, k3_v[i])), k4_v[i])))]))))

\* the point after one loop iteration: each coordinate advanced by the new velocity
SteppedPoint(current, velocity, step_size) ==
    [t |-> Add(current.t, Mul(velocity[0], step_size)),
     spatial |-> [i \in 0..2 |-> Add(current.spatial[i], Mul(velocity[i + 1], step_size))]]

RECURSIVE SolveLoop(_, _, _, _, _, _, _)
\* while (tau < parameter_range) { push current; advance; tau += step_size }
SolveLoop(s, points, current, current_velocity, tau, parameter_range, step_size) ==
    IF ~Lt(tau, parameter_range) THEN points
    ELSE Eval(SteppedVelocity(s, current, current_velocity, step_size), LAMBDA v :
            SolveLoop(s, Append(points, current), SteppedPoint(current, v, step_size), v,
                      Add(tau, step_size), parameter_range, step_size))

RECURSIVE NormSum(_, _, _, _)
\* norm += metric[mu][nu] * u[mu] * u[nu], x = mu * 4 + nu
NormSum(metric, u, x, acc) ==
    IF x > 15 THEN acc
    ELSE NormSum(metric, u, x + 1, Add(acc, Mul(Mul(metric[x], u[x \div 4]), u[x % 4])))

\* sqrt(|g(u, u)|)
VelocityNorm(metric, u) == Sqrt(FAbs(NormSum(metric, u, 0, Zero)))

\* the 4-velocity the integration starts from
Normalized(metric, u) ==
    Eval(VelocityNorm(metric, u), LAMBDA norm : [i \in Idx4 |-> Div(u[i], norm)])

\* GeodesicSolver::solve: the GeodesicPath returned
solve(s, initial_point, initial_direction, parameter_range, step_size) ==
    [points |-> SolveLoop(s, <<>>, initial_point, Normalized(s.metric_, initial_direction),
                          Zero, parameter_range, step_size),
     total_parameter |-> parameter_range]

\* static_cast<size_t>(a) for a >= 0: the integer part
Trunc(a) ==
    IF a.e >= 0 THEN a.m * Pow10[a.e]
    ELSE IF -a.e > 9 THEN 0
    ELSE a.m \div Pow10[-a.e]

\* (1.0 - alpha) * p.x + alpha * q.x for each coordinate
Blend(p, q, alpha) ==
    [t |-> Add(Mul(Sub(One, alpha), p.t), Mul(alpha, q.t)),
     spatial |-> [i \in 0..2 |->
                    Add(Mul(Sub(One, alpha), p.spatial[i]), Mul(alpha, q.spatial[i]))]]

\* an interpolation that fails past the last sample
interpolate_ThrowsPastEnd(path, lambda) ==
    IF Len(path.points) = 0 THEN [threw |-> TRUE]
    ELSE IF Len(path.points) = 1 THEN [threw |-> FALSE, value |-> path.points[1]]
    ELSE Eval(Div(path.total_parameter, Flt(Len(path.points) - 1, 0)), LAMBDA step_ :
         Eval(Trunc(Div(lambda, step_)), LAMBDA idx :
            IF idx >= Len(path.points) - 1
            THEN [threw |-> TRUE]
            ELSE Eval(Div(Sub(lambda, Mul(Flt(idx, 0), step_)), step_), LAMBDA alpha :
                    [threw |-> FALSE,
                     value |-> Blend(path.points[idx + 1], path.points[idx + 2], alpha)])))

\* GeodesicPath::interpolate for lambda >= 0; points[idx] of the code is
\* path.points[idx + 1] here
interpolate(path, lambda) ==
    IF Len(path.points) = 0 THEN [threw |-> TRUE]
    ELSE IF Len(path.points) = 1 THEN [threw |-> FALSE, value |-> path.points[1]]
    ELSE Eval(Div(path.total_parameter, Flt(Len(path.points) - 1, 0)), LAMBDA step_ :
         Eval(Trunc(Div(lambda, step_)), LAMBDA idx :
            IF idx >= Len(path.points) - 1
            THEN [threw |-> FALSE, value |-> path.points[Len(path.points)]]
            ELSE Eval(Div(Sub(lambda, Mul(Flt(idx, 0), step_)), step_), LAMBDA alpha :
                    [threw |-> FALSE,
                     value |-> Blend(path.points[idx + 1], path.points[idx + 2], alpha)])))

\* ------------------------------------------------------------------------
\* solvers (rk4.cpp): StateVector arithmetic, RK4Solver, AdaptiveRK4Solver
\* ------------------------------------------------------------------------

\* StateVector operator+(a, b)
VecAdd(a, b) == [i \in DOMAIN a |-> Add(a[i], b[i])]

\* StateVector operator-(a, b)
VecSub(a, b) == [i \in DOMAIN a |-> Sub(a[i], b[i])]

\* StateVector operator*(scalar, v)
VecScale(scalar, v) == [i \in DOMAIN v |-> Mul(scalar, v[i])]

\* std::min(a, b) and std::max(a, b)
FMin(a, b) == IF Lt(b, a) THEN b ELSE a

FMax(a, b) == IF Lt(a, b) THEN b ELSE a

RECURSIVE PieceAt(_, _, _)
\* the value of a piecewise constant function of t: values[i] up to jumps[i],
\* the last value from the last jump on
PieceAt(rhs, t, i) ==
    IF i > Len(rhs.jumps) THEN rhs.values[i]
    ELSE IF Lt(t, rhs.jumps[i]) THEN rhs.values[i]
    ELSE PieceAt(rhs, t, i + 1)

\* the rhs lambda of solve_geodesic: dy/dtau = (v, -Gamma v v), with gamma the
\* tensor manifold_.christoffel() returns
GeodesicRhs(gamma, y) ==
    LET velocity == [i \in Idx4 |-> y[i + 5]]
    IN  [i \in 1..8 |->
            IF i <= 4 THEN velocity[i - 1]
            ELSE Neg(RhsSum(gamma, velocity, i - 5, 0, Zero))]

\* the right-hand side handed to a solver, applied to (t, y)
Rhs(rhs, t, y) ==
    IF rhs.kind = "piecewise" THEN [i \in DOMAIN y |-> PieceAt(rhs, t, 1)]
    ELSE IF rhs.kind = "decay" THEN VecScale(Neg(rhs.rate), y)
    ELSE GeodesicRhs(rhs.gamma, y)

\* y + (h / 6.0) * (k1 + 2.0 * k2 + 2.0 * k3 + k4) with the four slopes of RK4
Rk4Advance(rhs, t, y, h) ==
    Eval(Rhs(rhs, t, y), LAMBDA k1 :
    Eval(Rhs(rhs, Add(t, Mul(h, Half)), VecAdd(y, VecScale(Mul(h, Half), k1))), LAMBDA k2 :
    Eval(Rhs(rhs, Add(t, Mul(h, Half)), VecAdd(y, VecScale(Mul(h, Half), k2))), LAMBDA k3 :
    Eval(Rhs(rhs, Add(t, h), VecAdd(y, VecScale(h, k3))), LAMBDA k4 :
        VecAdd(y, VecScale(Div(h, Flt(6, 0)),
                           VecAdd(VecAdd(VecAdd(k1, VecScale(Two, k2)), VecScale(Two, k3)),
                                  k4)))))))

\* AdaptiveRK4Solver::rk4_step
rk4_step(rhs, t, y, h) == Rk4Advance(rhs, t, y, h)

\* AdaptiveRK4Solver::step
step(rhs, t, y, h) ==
    Eval(rk4_step(rhs, t, y, h), LAMBDA y_full :
    Eval(rk4_step(rhs, t, y, Mul(h, Half)), LAMBDA y_mid :
        [y_half |-> rk4_step(rhs, Add(t, Mul(h, Half)), y_mid, Mul(h, Half)),
         y_full |-> y_full]))

RECURSIVE SquareSum(_, _, _)
\* sum += v[i] * v[i]
SquareSum(v, i, sum) ==
    IF i > Len(v) THEN sum ELSE SquareSum(v, i + 1, Add(sum, Mul(v[i], v[i])))

\* AdaptiveRK4Solver::compute_norm
compute_norm(v) == Sqrt(SquareSum(v, 1, Zero))

\* AdaptiveRK4Solver::AdaptiveRK4Solver: the solver, or the exception thrown
AdaptiveRK4Solver(dt_initial, tolerance, min_dt, max_dt) ==
    IF Le(dt_initial, Zero) \/ Le(tolerance, Zero)
    THEN [threw |-> TRUE]
    ELSE [threw |-> FALSE, dt_ |-> dt_initial, tolerance_ |-> tolerance,
          min_dt_ |-> min_dt, max_dt_ |-> max_dt]

\* AdaptiveRK4Solver::solve up to the first test of the loop condition
AdaptiveEnter(solver, initial_state, t0) ==
    [y |-> initial_state, t |-> t0, h |-> solver.dt_,
     path |-> <<[t |-> t0, y |-> initial_state]>>]

\* an iteration whose rejection also advances the parameter
AdaptiveBody_AdvancesOnReject(solver, rhs, run) ==
    Eval(step(rhs, run.t, run.y, run.h), LAMBDA pair :
    Eval(compute_norm(VecSub(pair.y_full, pair.y_half)), LAMBDA error_norm :
        IF Lt(error_norm, solver.tolerance_)
        THEN [y |-> pair.y_full,
              t |-> Add(run.t, run.h),
              h |-> FMin(Mul(run.h, Flt(15, -1)), solver.max_dt_),
              path |-> Append(run.path, [t |-> Add(run.t, run.h), y |-> pair.y_full])]
        ELSE [run EXCEPT !.t = Add(run.t, run.h),
                         !.h = FMax(Mul(run.h, Half), solver.min_dt_)]))

\* an iteration that accepts whatever the error once h is down at min_dt
AdaptiveBody_AcceptsAtFloor(solver, rhs, run) ==
    Eval(step(rhs, run.t, run.y, run.h), LAMBDA pair :
    Eval(compute_norm(VecSub(pair.y_full, pair.y_half)), LAMBDA error_norm :
        IF Lt(error_norm, solver.tolerance_) \/ run.h = solver.min_dt_
        THEN [y |-> pair.y_full,
              t |-> Add(run.t, run.h),
              h |-> FMin(Mul(run.h, Flt(15, -1)), solver.max_dt_),
              path |-> Append(run.path, [t |-> Add(run.t, run.h), y |-> pair.y_full])]
        ELSE [run EXCEPT !.h = FMax(Mul(run.h, Half), solver.min_dt_)]))

\* an iteration that grows the step without the cap max_dt
AdaptiveBody_Uncapped(solver, rhs, run) ==
    Eval(step(rhs, run.t, run.y, run.h), LAMBDA pair :
    Eval(compute_norm(VecSub(pair.y_full, pair.y_half)), LAMBDA error_norm :
        IF Lt(error_norm, solver.tolerance_)
        THEN [y |-> pair.y_full,
              t |-> Add(run.t, run.h),
              h |-> Mul(run.h, Flt(15, -1)),
              path |-> Append(run.path, [t |-> Add(run.t, run.h), y |-> pair.y_full])]
        ELSE [run EXCEPT !.h = FMax(Mul(run.h, Half), solver.min_dt_)]))

\* one iteration of "while (t < t_max)" of AdaptiveRK4Solver::solve
AdaptiveBody(solver, rhs, run) ==
    Eval(step(rhs, run.t, run.y, run.h), LAMBDA pair :
    Eval(compute_norm(VecSub(pair.y_full, pair.y_half)), LAMBDA error_norm :
        IF Lt(error_norm, solver.tolerance_)
        THEN [y |-> pair.y_full,
              t |-> Add(run.t, run.h),
              h |-> FMin(Mul(run.h, Flt(15, -1)), solver.max_dt_),
              path |-> Append(run.path, [t |-> Add(run.t, run.h), y |-> pair.y_full])]
        ELSE [run EXCEPT !.h = FMax(Mul(run.h, Half), solver.min_dt_)]))

\* RK4Solver::RK4Solver: the solver, or the exception thrown
RK4Solver(dt) ==
    IF Le(dt, Zero) THEN [threw |-> TRUE] ELSE [threw |-> FALSE, dt_ |-> dt]

\* an iteration that takes h = dt_ without looking at the distance left
Rk4Body_Unclamped(solver, rhs, run, t_max) ==
    Eval(solver.dt_, LAMBDA h :
    Eval(Rk4Advance(rhs, run.t, run.y, h), LAMBDA y :
        [y |-> y, t |-> Add(run.t, h),
         path |-> Append(run.path, [t |-> Add(run.t, h), y |-> y])]))

\* one iteration of "while (t < t_max)" of RK4Solver::solve
Rk4Body(solver, rhs, run, t_max) ==
    Eval(FMin(solver.dt_, Sub(t_max, run.t)), LAMBDA h :
    Eval(Rk4Advance(rhs, run.t, run.y, h), LAMBDA y :
        [y |-> y, t |-> Add(run.t, h),
         path |-> Append(run.path, [t |-> Add(run.t, h), y |-> y])]))

RECURSIVE Rk4Loop(_, _, _, _)
Rk4Loop(solver, rhs, run, t_max) ==
    IF ~Lt(run.t, t_max) THEN run.path
    ELSE Rk4Loop(solver, rhs, Rk4Body(solver, rhs, run, t_max), t_max)

\* RK4Solver::solve: the path returned
Rk4Solve(solver, rhs, initial_state, t0, t_max) ==
    Rk4Loop(solver, rhs,
            [y |-> initial_state, t |-> t0, path |-> <<[t |-> t0, y |-> initial_state]>>],
            t_max)

\* path.reserve(static_cast<size_t>((t_max - t0) / dt_) + 1): the cast of a
\* negative value is undefined; the reservation succeeds or throws
ReserveOutcomes(solver, t0, t_max) ==
    IF Div(Sub(t_max, t0), solver.dt_).m < 0 THEN {"reserved", "threw"} ELSE {"reserved"}

\* solvers::GeodesicSolver::GeodesicSolver: rk4_(dt)
GeodesicSolver(dt) == RK4Solver(dt)

\* solvers::GeodesicSolver::solve_geodesic after the reservation: the
\* initial state handed to RK4Solver::solve and the points returned
solve_geodesic(s, solver, start, initial_velocity, parameter_range) ==
    LET initial_state == <<start.t, start.spatial[0], start.spatial[1], start.spatial[2],
                           initial_velocity[0], initial_velocity[1],
                           initial_velocity[2], initial_velocity[3]>>
        raw_path == Rk4Solve(solver, [kind |-> "geodesic", gamma |-> christoffel(s)],
                             initial_state, Zero, parameter_range)
    IN  [initial_state |-> initial_state,
         result |-> [k \in 1..Len(raw_path) |->
                        [t |-> raw_path[k].y[1],
                         spatial |-> [i \in 0..2 |-> raw_path[k].y[i + 2]]]]]

\* ------------------------------------------------------------------------
\* cuda/riemann_kernels.cu: kernel_riemann_tensor and its launch
\* ------------------------------------------------------------------------

\* the shared arrays of block (mu, sigma, rho) at __syncthreads: thread t has
\* stored slot t of each, with nu = threadIdx.x = t
SharedFill(gamma, rho, mu) ==
    [s_gamma_rho_mu |-> [t \in Idx4 |-> gamma[rho * 16 + mu * 4 + t]],
     s_gamma_rho_nu |-> [t \in Idx4 |-> gamma[rho * 16 + t * 4 + t]]]

\* thread nu of block (mu, sigma, rho) after the barrier: the value it stores
\* in riemann[rho * 64 + sigma * 16 + mu * 4 + nu]
KernelEntry(gamma, dgamma, shared, rho, sigma, mu, nu) ==
    LET term1 == dgamma[mu * 64 + rho * 16 + nu * 4 + sigma]
        term2 == Neg(dgamma[nu * 64 + rho * 16 + mu * 4 + sigma])
        term3 == Sum4([lambda \in Idx4 |->
                        Mul(shared.s_gamma_rho_mu[lambda],
                            gamma[lambda * 16 + nu * 4 + sigma])])
        term4 == Sum4([lambda \in Idx4 |->
                        Mul(shared.s_gamma_rho_nu[lambda],
                            gamma[lambda * 16 + mu * 4 + sigma])])
    IN  Sub(Add(Add(term1, term2), term3), term4)

\* the launch passes nullptr for dgamma and the kernel loads from it: the
\* loads fault, or they return (here: zero) values
DGammaLoads == {"fault", "zeros"}

\* blocks of the grid dim3(4, 4, 4), numbered rho * 16 + sigma * 4 + mu
GridBlocks == 64

\* ------------------------------------------------------------------------
\* inputs
\* ------------------------------------------------------------------------

\* capital_density = [a, 0, 0, 0]
Density(a) == [i \in Idx4 |-> IF i = 0 THEN a ELSE Zero]

\* the mass of the high-curvature scenario
HighDensity == Density(Flt(1, 6))

\* no mass; the high mass; a mass at which 2 G sqrt(d) / c^2 reaches 1 and
\* g_00 vanishes
DensityInputs == {Density(Zero), HighDensity, Density(Flt(4535, 50))}

\* all flows zero; flow i along axis i; every flow (c, 0, 0, 0)
FlowZero == [i \in Idx4 |-> [j \in Idx4 |-> Zero]]

FlowAxes == [i \in Idx4 |-> [j \in Idx4 |-> IF j = i THEN One ELSE Zero]]

FlowLight == [i \in Idx4 |-> [j \in Idx4 |-> IF j = 0 THEN C_LIGHT ELSE Zero]]

FlowInputs == {FlowZero, FlowAxes, FlowLight}

\* values an uninitialised double member may hold
Indeterminate == {Zero, Flt(-7, 3)}

\* compute_ricci_scalar / detect_singularities calls explored per metric
MaxScalarCalls == 2

StartPoint == [t |-> Zero, spatial |-> [i \in 0..2 |-> Zero]]

\* initial directions: along time; time and one space axis
DirectionInputs ==
    {[i \in Idx4 |-> IF i = 0 THEN One ELSE Zero],
     [i \in Idx4 |-> IF i = 0 THEN Two ELSE IF i = 1 THEN One ELSE Zero]}

\* longest parameter range integrated, in steps of step_size 1
MaxRange == 2

RangeInputs == {Flt(n, 0) : n \in 1..MaxRange}

StepInputs == {One}

\* Ricci scalars handed to the threshold test: every 1e-4 within
\* ThresholdSpread * 1e-4 of +-0.95, and zero
ThresholdSpread == 30

ScalarInputs ==
    {Zero} \cup {Flt(sgn * k, -4) : sgn \in {-1, 1},
                                   k \in (9500 - ThresholdSpread)..(9500 + ThresholdSpread)}

\* rows the matrices handed to invert_matrix_4x4 are built from
RowInputs ==
    {<<Zero, Zero, Zero, Zero>>,
     <<Zero, One, Zero, Zero>>,
     <<Two, Zero, Zero, Zero>>,
     <<Flt(-3, 0), One, Zero, One>>,
     <<Zero, Zero, One, Two>>,
     <<Flt(1, -11), Zero, Flt(1, -10), One>>}

MatrixInputs ==
    {[x \in 0..15 |-> rows[x \div 4][(x % 4) + 1]] : rows \in [Idx4 -> RowInputs]}

\* the integration loop of GeodesicSolver::solve is followed for at most
\* MaxIterations iterations
MaxIterations == 4

\* parameter_range and step_size of GeodesicSolver::solve taken one iteration
\* at a time: negative, zero and positive
SolveRanges == {Flt(-1, 0), Zero, One, Two}

SolveSteps == {Flt(-1, 0), Zero, Half, One}

\* right-hand sides handed to the solvers of rk4.cpp
StepRhs ==
    [kind |-> "piecewise", jumps |-> <<Flt(1625, -3), Flt(1875, -3)>>,
     values |-> <<One, Zero, Flt(3, 0)>>]

RhsInputs ==
    {StepRhs,
     [kind |-> "piecewise", jumps |-> <<>>, values |-> <<One>>],
     [kind |-> "decay", rate |-> One]}

\* AdaptiveRK4Solver: dt_initial, tolerance, max_dt, t_max; min_dt is the default
DtInputs == {Zero, Half, One}

ToleranceInputs == {Zero, One, Flt(1, -1)}

DEFAULT_MIN_DT == Flt(1, -8)

MaxDtInputs == {One, Two}

TMaxInputs == {Zero, Two, Flt(4, 0)}

\* the loop of AdaptiveRK4Solver::solve is followed for at most
\* MaxAdaptiveIterations iterations
MaxAdaptiveIterations == 30

\* paths handed to GeodesicPath::interpolate are those GeodesicSolver::solve
\* returns for these ranges and steps, and the parameters asked for
PathRanges == {Flt(-1, 0), Zero, One, Two}

PathSteps == {Half, One}

LambdaInputs == {Zero, Flt(25, -2), Half, One, Flt(15, -1), Two, Flt(3, 0)}

\* Christoffel tensors handed to CudaRiemannEngine::compute_riemann_tensor:
\* zero, what compute_christoffel_symbols gives for the constructor's
\* metric, and a tensor with every component 1
GammaInputs ==
    {ZeroTensor(64),
     ChristoffelFrom(invert_matrix(FlatMetric).inv, FlatMetric),
     [x \in 0..63 |-> One]}

\* iterations of RK4Solver::solve that are followed
MaxRk4Iterations == 6

\* step sizes, start and end parameters handed to RK4Solver
Rk4Dts == {Zero, Flt(4, -1), Half, Flt(75, -2), One}

Rk4Starts == {Zero, Flt(1000, 0)}

Rk4Ends == {Zero, One, Two, Flt(1001, 0)}

\* iterations of one AdaptiveRK4Solver::solve call that are followed
MaxRunIterations == 12

\* arguments of one AdaptiveRK4Solver and its solve call
RunStarts == {Zero, Flt(1000, 0)}

RunEnds == {Two, Flt(1001, 0)}

RunDts == {Flt(4, -1), Half, One}

RunTolerances == {Flt(1, -1), Flt(1, -3)}

RunMinDts == {DEFAULT_MIN_DT, Flt(25, -2), Half}

RunMaxDts == {One, Two}

\* WebSocket objects one useWebSocket instance may create in a run
MaxSockets == 3

\* values of the option maxReconnectAttempts
ReconnectAttemptInputs == {0, 1, 2}

\* scale * identity
ScaledIdentity(scale) == [x \in 0..15 |-> IF x \div 4 = x % 4 THEN scale ELSE Zero]

\* matrices inverted, inverted again and multiplied by their inverse
RoundTripInputs ==
    MatrixInputs \cup {ScaledIdentity(Flt(1, 11)), ScaledIdentity(Flt(1, 9)), ScaledIdentity(Two)}

\* ------------------------------------------------------------------------
\* state
\* ------------------------------------------------------------------------

VARIABLES
    metric_,             \* MetricTensor metric_
    christoffel_,        \* mutable ChristoffelSymbols christoffel_
    riemann_,            \* mutable RiemannTensor riemann_
    ricci_,              \* mutable RicciTensor ricci_
    ricci_scalar_,       \* mutable double ricci_scalar_
    christoffel_valid_,
    riemann_valid_,
    ricci_valid_,
    computed,            \* history: computations completed since the last update_metric
    requested,           \* history: deepest chain level requested since the last update_metric
    last_update,         \* history: the arguments of the last update_metric
    ret,                 \* the last call: its name, whether it threw, what it returned
    probe                \* a function of the code applied on its own: its input, progress, result

manifold == <<metric_, christoffel_, riemann_, ricci_, ricci_scalar_,
              christoffel_valid_, riemann_valid_, ricci_valid_>>

vars == <<metric_, christoffel_, riemann_, ricci_, ricci_scalar_,
          christoffel_valid_, riemann_valid_, ricci_valid_,
          computed, requested, last_update, ret, probe>>

\* the variables of the manifold and of the calls made on it
mvars == <<metric_, christoffel_, riemann_, ricci_, ricci_scalar_,
           christoffel_valid_, riemann_valid_, ricci_valid_,
           computed, requested, last_update, ret>>

NoneComputed == [christoffel |-> 0, riemann |-> 0, ricci |-> 0, scalar |-> 0]

\* the manifold object, as the member functions see it
Self ==
    [metric_ |-> metric_, christoffel_ |-> christoffel_, riemann_ |-> riemann_,
     ricci_ |-> ricci_, ricci_scalar_ |-> ricci_scalar_,
     christoffel_valid_ |-> christoffel_valid_, riemann_valid_ |-> riemann_valid_,
     ricci_valid_ |-> ricci_valid_, computed |-> computed]

\* the members after a const member function returned or threw `r`
Store(r) ==
    /\ metric_' = r.s.metric_
    /\ christoffel_' = r.s.christoffel_
    /\ riemann_' = r.s.riemann_
    /\ ricci_' = r.s.ricci_
    /\ ricci_scalar_' = r.s.ricci_scalar_
    /\ christoffel_valid_' = r.s.christoffel_valid_
    /\ riemann_valid_' = r.s.riemann_valid_
    /\ ricci_valid_' = r.s.ricci_valid_
    /\ computed' = r.s.computed

Idle == [fn |-> "none"]

\* RiemannManifold::RiemannManifold()
Constructed ==
    /\ metric_ = FlatMetric
    /\ christoffel_ = ZeroTensor(64)
    /\ riemann_ = ZeroTensor(256)
    /\ ricci_ = ZeroTensor(16)
    /\ ricci_scalar_ \in Indeterminate
    /\ christoffel_valid_ = FALSE
    /\ riemann_valid_ = FALSE
    /\ ricci_valid_ = FALSE
    /\ computed = NoneComputed
    /\ requested = 0
    /\ last_update = <<>>
    /\ ret = [op |-> "RiemannManifold", threw |-> FALSE, value |-> <<>>]

Init == Constructed /\ probe = Idle

\* an update that forgets to clear the Ricci flag
UpdateMetric_KeepsRicci(capital_density, flow_field) ==
    /\ metric_' = UpdatedMetric(metric_, capital_density, flow_field)
    /\ christoffel_valid_' = FALSE
    /\ riemann_valid_' = FALSE
    /\ UNCHANGED <<christoffel_, riemann_, ricci_, ricci_scalar_, ricci_valid_>>
    /\ computed' = NoneComputed
    /\ requested' = 0
    /\ last_update' = <<capital_density, flow_field>>
    /\ ret' = [op |-> "update_metric", threw |-> FALSE, value |-> <<>>]

\* an update that forgets to clear the Christoffel flag
UpdateMetric_KeepsChristoffel(capital_density, flow_field) ==
    /\ metric_' = UpdatedMetric(metric_, capital_density, flow_field)
    /\ riemann_valid_' = FALSE
    /\ ricci_valid_' = FALSE
    /\ UNCHANGED <<christoffel_, riemann_, ricci_, ricci_scalar_, christoffel_valid_>>
    /\ computed' = NoneComputed
    /\ requested' = 0
    /\ last_update' = <<capital_density, flow_field>>
    /\ ret' = [op |-> "update_metric", threw |-> FALSE, value |-> <<>>]

\* RiemannManifold::update_metric
UpdateMetric(capital_density, flow_field) ==
    /\ metric_' = UpdatedMetric(metric_, capital_density, flow_field)
    /\ christoffel_valid_' = FALSE
    /\ riemann_valid_' = FALSE
    /\ ricci_valid_' = FALSE
    /\ UNCHANGED <<christoffel_, riemann_, ricci_, ricci_scalar_>>
    /\ computed' = NoneComputed
    /\ requested' = 0
    /\ last_update' = <<capital_density, flow_field>>
    /\ ret' = [op |-> "update_metric", threw |-> FALSE, value |-> <<>>]

Max(a, b) == IF a >= b THEN a ELSE b

ComputeChristoffelSymbols ==
    \E r \in {compute_christoffel_symbols(Self)} :
        /\ Store(r)
        /\ requested' = Max(requested, 1)
        /\ UNCHANGED last_update
        /\ ret' = [op |-> "compute_christoffel_symbols", threw |-> r.threw, value |-> r.value]

ComputeRiemannTensor ==
    \E r \in {compute_riemann_tensor(Self)} :
        /\ Store(r)
        /\ requested' = Max(requested, 2)
        /\ UNCHANGED last_update
        /\ ret' = [op |-> "compute_riemann_tensor", threw |-> r.threw, value |-> r.value]

ComputeRicciTensor ==
    \E r \in {compute_ricci_tensor(Self)} :
        /\ Store(r)
        /\ requested' = Max(requested, 3)
        /\ UNCHANGED last_update
        /\ ret' = [op |-> "compute_ricci_tensor", threw |-> r.threw, value |-> r.value]

ComputeRicciScalar ==
    /\ computed.scalar < MaxScalarCalls
    /\ \E r \in {compute_ricci_scalar(Self)} :
           /\ Store(r)
           /\ requested' = 4
           /\ UNCHANGED last_update
           /\ ret' = [op |-> "compute_ricci_scalar", threw |-> r.threw, value |-> r.value]

DetectSingularities ==
    /\ computed.scalar < MaxScalarCalls
    /\ \E r \in {detect_singularities(Self)} :
           /\ Store(r)
           /\ requested' = 4
           /\ UNCHANGED last_update
           /\ ret' = IF r.threw
                     THEN [op |-> "detect_singularities", threw |-> TRUE, value |-> <<>>]
                     ELSE [op |-> "detect_singularities", threw |-> FALSE, value |-> r.value,
                           R |-> r.R, logged |-> r.logged]

\* a solve that has the manifold compute its Christoffel symbols before
\* integrating
Solve_ComputesChristoffel(initial_direction, parameter_range, step_size) ==
    /\ VelocityNorm(metric_, initial_direction) # Zero
    /\ \E r \in {compute_christoffel_symbols(Self)} :
           /\ Store(r)
           /\ ret' = [op |-> "solve", threw |-> r.threw,
                      value |-> IF r.threw THEN <<>>
                                ELSE solve(r.s, StartPoint, initial_direction,
                                           parameter_range, step_size),
                      gamma_read |-> christoffel(r.s),
                      gamma_valid |-> r.s.christoffel_valid_]
    /\ UNCHANGED <<requested, last_update>>

\* GeodesicSolver::solve on this manifold; gamma_valid records the validity
\* flag of the Christoffel symbols at the time geodesic_rhs read them
Solve(initial_direction, parameter_range, step_size) ==
    /\ VelocityNorm(metric_, initial_direction) # Zero
    /\ \E path \in {solve(Self, StartPoint, initial_direction, parameter_range, step_size)} :
           ret' = [op |-> "solve", threw |-> FALSE, value |-> path,
                   gamma_read |-> christoffel(Self),
                   gamma_valid |-> christoffel_valid_]
    /\ UNCHANGED <<manifold, computed, requested, last_update>>

Call ==
    \/ \E d \in DensityInputs, f \in FlowInputs : UpdateMetric(d, f)
    \/ ComputeChristoffelSymbols
    \/ ComputeRiemannTensor
    \/ ComputeRicciTensor
    \/ ComputeRicciScalar
    \/ DetectSingularities
    \/ \E u \in DirectionInputs, range \in RangeInputs, h \in StepInputs : Solve(u, range, h)

Next == Call /\ UNCHANGED probe

\* one manifold and any sequence of calls on it
Spec == Init /\ [][Next]_vars

\* ------------------------------------------------------------------------
\* the threshold test of detect_singularities on its own
\* ------------------------------------------------------------------------

InitDetect ==
    /\ Constructed
    /\ \E R \in ScalarInputs : probe = [fn |-> "detect", R |-> R, done |-> FALSE]

ApplyDetect ==
    /\ probe.fn = "detect"
    /\ ~probe.done
    /\ probe' = [fn |-> "detect", R |-> probe.R, done |-> TRUE,
                 out |-> DetectOutcome(probe.R)]
    /\ UNCHANGED mvars

SpecDetect == InitDetect /\ [][ApplyDetect]_vars

\* ------------------------------------------------------------------------
\* invert_matrix_4x4, one elimination step at a time
\* ------------------------------------------------------------------------

InitInvert ==
    /\ Constructed
    /\ \E m \in MatrixInputs :
          probe = [fn |-> "invert_matrix_4x4", m |-> m, i |-> 0, status |-> "running",
                   result |-> m, inverse |-> Identity4, pivot |-> 0]

\* the body of "for (size_t i = 0; i < 4; ++i)", or the return after it
InvertStep ==
    /\ probe.fn = "invert_matrix_4x4"
    /\ probe.status = "running"
    /\ IF probe.i >= 4
       THEN probe' = [probe EXCEPT !.status = "returned"]
       ELSE \E st \in {GaussStep(probe.result, probe.inverse, probe.i)} :
               probe' = [probe EXCEPT !.status = IF st.threw THEN "threw" ELSE "running",
                                      !.i = IF st.threw THEN @ ELSE @ + 1,
                                      !.result = st.result,
                                      !.inverse = st.inverse,
                                      !.pivot = st.pivot]
    /\ UNCHANGED mvars

SpecInvert == InitInvert /\ [][InvertStep]_vars

\* ------------------------------------------------------------------------
\* invert_matrix_4x4 applied to a matrix and then to the inverse it returned
\* ------------------------------------------------------------------------

InitRoundTrip ==
    /\ Constructed
    /\ \E m \in RoundTripInputs : probe = [fn |-> "round_trip", m |-> m, stage |-> 0]

\* inverse = invert_matrix_4x4(m)
InvertOnce ==
    /\ probe.fn = "round_trip"
    /\ probe.stage = 0
    /\ \E r \in {invert_matrix_4x4(probe.m)} :
          probe' = [fn |-> "round_trip", m |-> probe.m, stage |-> 1, first |-> r]
    /\ UNCHANGED mvars

\* contract_indices(m, inverse, 4, 4) and invert_matrix_4x4(inverse)
InvertAgain ==
    /\ probe.fn = "round_trip"
    /\ probe.stage = 1
    /\ ~probe.first.threw
    /\ \E r \in {invert_matrix_4x4(probe.first.inv)},
          c \in {contract_indices(probe.m, probe.first.inv, 4, 4)} :
          probe' = [fn |-> "round_trip", m |-> probe.m, stage |-> 2,
                    first |-> probe.first, second |-> r, product |-> c]
    /\ UNCHANGED mvars

SpecRoundTrip == InitRoundTrip /\ [][InvertOnce \/ InvertAgain]_vars

\* ------------------------------------------------------------------------
\* GeodesicSolver::solve on a manifold, one loop iteration at a time
\* ------------------------------------------------------------------------

InitSolve ==
    /\ Constructed
    /\ probe = [fn |-> "solve", stage |-> "ready"]

\* calls on the manifold before the solver is entered
SolveManifoldCall ==
    /\ probe.fn = "solve"
    /\ probe.stage = "ready"
    /\ \/ \E d \in DensityInputs, f \in FlowInputs : UpdateMetric(d, f)
       \/ ComputeChristoffelSymbols
    /\ UNCHANGED probe

\* GeodesicSolver::solve up to the first test of the loop condition
SolveEnter(initial_direction, parameter_range, step_size) ==
    /\ probe.fn = "solve"
    /\ probe.stage = "ready"
    /\ VelocityNorm(metric_, initial_direction) # Zero
    /\ probe' = [fn |-> "solve", stage |-> "running",
                 initial_direction |-> initial_direction,
                 parameter_range |-> parameter_range,
                 step_size |-> step_size,
                 points |-> <<>>,
                 total_parameter |-> parameter_range,
                 current |-> StartPoint,
                 current_velocity |-> Normalized(metric_, initial_direction),
                 initial_velocity |-> Normalized(metric_, initial_direction),
                 tau |-> Zero,
                 iterations |-> 0]
    /\ UNCHANGED mvars

\* one iteration of "while (tau < parameter_range)"
SolveIterate ==
    /\ probe.fn = "solve"
    /\ probe.stage = "running"
    /\ Lt(probe.tau, probe.parameter_range)
    /\ probe.iterations < MaxIterations
    /\ \E v \in {SteppedVelocity(Self, probe.current, probe.current_velocity, probe.step_size)} :
          probe' = [probe EXCEPT !.points = Append(@, probe.current),
                                 !.current = SteppedPoint(@, v, probe.step_size),
                                 !.current_velocity = v,
                                 !.tau = Add(@, probe.step_size),
                                 !.iterations = @ + 1]
    /\ UNCHANGED mvars

\* the loop condition is false: return path
SolveExit ==
    /\ probe.fn = "solve"
    /\ probe.stage = "running"
    /\ ~Lt(probe.tau, probe.parameter_range)
    /\ probe' = [probe EXCEPT !.stage = "returned"]
    /\ UNCHANGED mvars

\* solvers::GeodesicSolver(manifold, dt).solve_geodesic(start, u, range)
SolveGeodesic(initial_velocity, parameter_range, dt) ==
    /\ probe.fn = "solve"
    /\ probe.stage = "ready"
    /\ \E solver \in {GeodesicSolver(dt)} :
          IF solver.threw
          THEN probe' = [fn |-> "solve", stage |-> "geodesic_threw",
                         initial_direction |-> initial_velocity,
                         parameter_range |-> parameter_range, step_size |-> dt]
          ELSE \E reserve \in ReserveOutcomes(solver, Zero, parameter_range) :
                  IF reserve = "threw"
                  THEN probe' = [fn |-> "solve", stage |-> "geodesic_threw",
                                 initial_direction |-> initial_velocity,
                                 parameter_range |-> parameter_range, step_size |-> dt]
                  ELSE \E out \in {solve_geodesic(Self, solver, StartPoint,
                                                  initial_velocity, parameter_range)} :
                          probe' = [fn |-> "solve", stage |-> "geodesic_returned",
                                    initial_direction |-> initial_velocity,
                                    parameter_range |-> parameter_range,
                                    step_size |-> dt,
                                    points |-> out.result,
                                    initial_velocity |->
                                        [i \in Idx4 |-> out.initial_state[i + 5]]]
    /\ UNCHANGED mvars

NextSolve ==
    \/ SolveManifoldCall
    \/ \E u \in DirectionInputs, range \in SolveRanges, h \in SolveSteps : SolveEnter(u, range, h)
    \/ SolveIterate
    \/ SolveExit
    \/ \E u \in DirectionInputs, range \in SolveRanges, dt \in SolveSteps :
          SolveGeodesic(u, range, dt)

SpecSolve == InitSolve /\ [][NextSolve]_vars

\* ------------------------------------------------------------------------
\* AdaptiveRK4Solver::solve run twice on the same problem, with tolerance
\* eps and with tolerance eps / 10, one loop iteration of each at a time
\* ------------------------------------------------------------------------

InitAdaptive ==
    /\ Constructed
    /\ \E rhs \in RhsInputs, dt \in DtInputs, eps \in ToleranceInputs,
          max_dt \in MaxDtInputs, t_max \in TMaxInputs :
          probe = [fn |-> "adaptive", stage |-> "ready", rhs |-> rhs, dt |-> dt,
                   eps |-> eps, max_dt |-> max_dt, t_max |-> t_max]

\* both solvers are constructed and both solve calls reach their loop
AdaptiveConstruct ==
    /\ probe.fn = "adaptive"
    /\ probe.stage = "ready"
    /\ \E loose \in {AdaptiveRK4Solver(probe.dt, probe.eps, DEFAULT_MIN_DT, probe.max_dt)},
          tight \in {AdaptiveRK4Solver(probe.dt, Div(probe.eps, Flt(10, 0)),
                                       DEFAULT_MIN_DT, probe.max_dt)} :
          IF loose.threw \/ tight.threw
          THEN probe' = [probe EXCEPT !.stage = "threw"]
          ELSE probe' = [fn |-> "adaptive", stage |-> "running", rhs |-> probe.rhs,
                         dt |-> probe.dt, eps |-> probe.eps, max_dt |-> probe.max_dt,
                         t_max |-> probe.t_max,
                         loose |-> loose, tight |-> tight,
                         loose_run |-> AdaptiveEnter(loose, <<One>>, Zero),
                         tight_run |-> AdaptiveEnter(tight, <<One>>, Zero),
                         iterations |-> 0]
    /\ UNCHANGED mvars

\* each run that has not left its loop makes one iteration
AdaptiveIterate ==
    /\ probe.fn = "adaptive"
    /\ probe.stage = "running"
    /\ probe.iterations < MaxAdaptiveIterations
    /\ Lt(probe.loose_run.t, probe.t_max) \/ Lt(probe.tight_run.t, probe.t_max)
    /\ probe' = [probe EXCEPT
                    !.loose_run = IF Lt(@.t, probe.t_max)
                                  THEN AdaptiveBody(probe.loose, probe.rhs, @) ELSE @,
                    !.tight_run = IF Lt(@.t, probe.t_max)
                                  THEN AdaptiveBody(probe.tight, probe.rhs, @) ELSE @,
                    !.iterations = @ + 1]
    /\ UNCHANGED mvars

\* both loops have ended: both calls return their paths
AdaptiveReturn ==
    /\ probe.fn = "adaptive"
    /\ probe.stage = "running"
    /\ ~Lt(probe.loose_run.t, probe.t_max)
    /\ ~Lt(probe.tight_run.t, probe.t_max)
    /\ probe' = [probe EXCEPT !.stage = "returned"]
    /\ UNCHANGED mvars

SpecAdaptive ==
    InitAdaptive /\ [][AdaptiveConstruct \/ AdaptiveIterate \/ AdaptiveReturn]_vars

\* ------------------------------------------------------------------------
\* GeodesicPath::interpolate on the paths GeodesicSolver::solve returns
\* ------------------------------------------------------------------------

InitInterpolate ==
    /\ Constructed
    /\ probe = [fn |-> "interpolate", stage |-> "ready"]

\* path = GeodesicSolver::solve(manifold, start, u, parameter_range, step_size)
MakePath(initial_direction, parameter_range, step_size) ==
    /\ probe.fn = "interpolate"
    /\ probe.stage = "ready"
    /\ \E path \in {solve(Self, StartPoint, initial_direction, parameter_range, step_size)} :
          probe' = [fn |-> "interpolate", stage |-> "path", path |-> path,
                    parameter_range |-> parameter_range, step_size |-> step_size]
    /\ UNCHANGED mvars

\* path.interpolate(lambda)
Interpolate(lambda) ==
    /\ probe.fn = "interpolate"
    /\ probe.stage = "path"
    /\ \E out \in {interpolate(probe.path, lambda)} :
          probe' = [probe EXCEPT !.stage = "interpolated"] @@ [lambda |-> lambda, out |-> out]
    /\ UNCHANGED mvars

NextInterpolate ==
    \/ \E u \in DirectionInputs, range \in PathRanges, h \in PathSteps : MakePath(u, range, h)
    \/ \E lambda \in LambdaInputs : Interpolate(lambda)

SpecInterpolate == InitInterpolate /\ [][NextInterpolate]_vars

\* ------------------------------------------------------------------------
\* CudaRiemannEngine::compute_riemann_tensor, block by block
\* ------------------------------------------------------------------------

InitKernel ==
    /\ Constructed
    /\ \E h_gamma \in GammaInputs :
          probe = [fn |-> "kernel", stage |-> "host", h_gamma |-> h_gamma]

\* cudaMemcpy(d_gamma_, h_gamma) and kernel_riemann_tensor<<<grid, block>>>
KernelLaunch ==
    /\ probe.fn = "kernel"
    /\ probe.stage = "host"
    /\ \E loads \in DGammaLoads :
          probe' = [fn |-> "kernel", stage |-> "fill", h_gamma |-> probe.h_gamma,
                    d_gamma_ |-> probe.h_gamma, loads |-> loads,
                    block |-> 0, d_riemann_ |-> <<>>]
    /\ UNCHANGED mvars

\* the four threads of the current block up to __syncthreads
KernelFill ==
    /\ probe.fn = "kernel"
    /\ probe.stage = "fill"
    /\ probe.block < GridBlocks
    /\ probe' = [fn |-> "kernel", stage |-> "synced", h_gamma |-> probe.h_gamma,
                 d_gamma_ |-> probe.d_gamma_, loads |-> probe.loads,
                 block |-> probe.block, d_riemann_ |-> probe.d_riemann_,
                 shared |-> SharedFill(probe.d_gamma_, probe.block \div 16,
                                       probe.block % 4)]
    /\ UNCHANGED mvars

\* the four threads of the current block after the barrier, loads answered
KernelCompute ==
    /\ probe.fn = "kernel"
    /\ probe.stage = "synced"
    /\ probe.loads = "zeros"
    /\ \E out \in {[nu \in 1..4 |->
                      KernelEntry(probe.d_gamma_, ZeroTensor(256), probe.shared,
                                  probe.block \div 16, (probe.block \div 4) % 4,
                                  probe.block % 4, nu - 1)]} :
          probe' = [fn |-> "kernel", stage |-> "fill", h_gamma |-> probe.h_gamma,
                    d_gamma_ |-> probe.d_gamma_, loads |-> probe.loads,
                    block |-> probe.block + 1,
                    d_riemann_ |-> probe.d_riemann_ \o out]
    /\ UNCHANGED mvars

\* the four threads of the current block after the barrier, loads faulting
KernelFault ==
    /\ probe.fn = "kernel"
    /\ probe.stage = "synced"
    /\ probe.loads = "fault"
    /\ probe' = [probe EXCEPT !.stage = "faulted"]
    /\ UNCHANGED mvars

\* CUDA_CHECK(cudaDeviceSynchronize()) after a fault
KernelThrow ==
    /\ probe.fn = "kernel"
    /\ probe.stage = "faulted"
    /\ probe' = [probe EXCEPT !.stage = "threw"]
    /\ UNCHANGED mvars

\* cudaMemcpy(h_riemann, d_riemann_) once every block has run
KernelCopyBack ==
    /\ probe.fn = "kernel"
    /\ probe.stage = "fill"
    /\ probe.block = GridBlocks
    /\ probe' = [fn |-> "kernel", stage |-> "copied", h_gamma |-> probe.h_gamma,
                 h_riemann |-> [x \in 0..255 |-> probe.d_riemann_[x + 1]]]
    /\ UNCHANGED mvars

NextKernel ==
    \/ KernelLaunch
    \/ KernelFill
    \/ KernelCompute
    \/ KernelFault
    \/ KernelThrow
    \/ KernelCopyBack

SpecKernel == InitKernel /\ [][NextKernel]_vars

\* ------------------------------------------------------------------------
\* RK4Solver(dt).solve(rhs, {1.0}, t0, t_max), one iteration at a time
\* ------------------------------------------------------------------------

\* a + b is computed without rounding
ExactAdd(a, b) ==
    \/ a.m = 0
    \/ b.m = 0
    \/ LET hi == IF a.e >= b.e THEN a ELSE b
           lo == IF a.e >= b.e THEN b ELSE a
           gap == hi.e - lo.e
           sum == Add(a, b)
       IN  /\ gap <= Precision + 1
           /\ \/ sum.m = 0 /\ hi.m * Pow10[gap] + lo.m = 0
              \/ /\ sum.m # 0
                 /\ sum.e >= lo.e
                 /\ sum.e - lo.e <= Precision + 1
                 /\ hi.m * Pow10[gap] + lo.m = sum.m * Pow10[sum.e - lo.e]
              \/ /\ sum.m # 0
                 /\ sum.e < lo.e
                 /\ lo.e - sum.e <= Precision
                 /\ (hi.m * Pow10[gap] + lo.m) * Pow10[lo.e - sum.e] = sum.m

InitRk4 ==
    /\ Constructed
    /\ \E rhs \in RhsInputs, dt \in Rk4Dts, t0 \in Rk4Starts, t_max \in Rk4Ends :
          probe = [fn |-> "rk4", stage |-> "ready", rhs |-> rhs, dt |-> dt,
                   t0 |-> t0, t_max |-> t_max]

\* RK4Solver solver(dt)
Rk4Construct ==
    /\ probe.fn = "rk4"
    /\ probe.stage = "ready"
    /\ \E solver \in {RK4Solver(probe.dt)} :
          probe' = [fn |-> "rk4",
                    stage |-> IF solver.threw THEN "threw" ELSE "constructed",
                    rhs |-> probe.rhs, dt |-> probe.dt, t0 |-> probe.t0,
                    t_max |-> probe.t_max, solver |-> solver]
    /\ UNCHANGED mvars

\* solve up to the first test of the loop condition
Rk4Enter ==
    /\ probe.fn = "rk4"
    /\ probe.stage = "constructed"
    /\ \E reserve \in ReserveOutcomes(probe.solver, probe.t0, probe.t_max) :
          probe' = [fn |-> "rk4",
                    stage |-> IF reserve = "threw" THEN "length_error" ELSE "running",
                    rhs |-> probe.rhs, dt |-> probe.dt, t0 |-> probe.t0,
                    t_max |-> probe.t_max, solver |-> probe.solver,
                    run |-> [y |-> <<One>>, t |-> probe.t0,
                             path |-> <<[t |-> probe.t0, y |-> <<One>>]>>],
                    iterations |-> 0, exact |-> TRUE]
    /\ UNCHANGED mvars

\* one pass through the loop body
Rk4Iterate ==
    /\ probe.fn = "rk4"
    /\ probe.stage = "running"
    /\ Lt(probe.run.t, probe.t_max)
    /\ probe.iterations < MaxRk4Iterations
    /\ \E next \in {Rk4Body(probe.solver, probe.rhs, probe.run, probe.t_max)} :
          probe' = [probe EXCEPT
                      !.run = next,
                      !.iterations = @ + 1,
                      !.exact = /\ @
                                /\ ExactAdd(probe.t_max, Neg(probe.run.t))
                                /\ ExactAdd(probe.run.t,
                                            FMin(probe.dt, Sub(probe.t_max, probe.run.t)))]
    /\ UNCHANGED mvars

\* the loop condition fails: return path
Rk4Return ==
    /\ probe.fn = "rk4"
    /\ probe.stage = "running"
    /\ ~Lt(probe.run.t, probe.t_max)
    /\ probe' = [probe EXCEPT !.stage = "returned"]
    /\ UNCHANGED mvars

NextRk4 ==
    \/ Rk4Construct
    \/ Rk4Enter
    \/ Rk4Iterate
    \/ Rk4Return

SpecRk4 == InitRk4 /\ [][NextRk4]_vars

\* ------------------------------------------------------------------------
\* one AdaptiveRK4Solver(dt, tolerance, min_dt, max_dt).solve(rhs, {1.0}, t0,
\* t_max), one loop iteration at a time; error_norm is the local of the last
\* iteration, errors and steps are the error_norm and the h of every accepted
\* iteration, exact tells that every accepted t += h was computed exactly
\* ------------------------------------------------------------------------

InitRun ==
    /\ Constructed
    /\ \E rhs \in RhsInputs, t0 \in RunStarts, t_max \in RunEnds, dt \in RunDts,
          tolerance \in RunTolerances, min_dt \in RunMinDts, max_dt \in RunMaxDts :
          probe = [fn |-> "run", stage |-> "ready", rhs |-> rhs, t0 |-> t0,
                   t_max |-> t_max,
                   solver |-> AdaptiveRK4Solver(dt, tolerance, min_dt, max_dt)]

\* solve up to the first test of the loop condition
RunEnter ==
    /\ probe.fn = "run"
    /\ probe.stage = "ready"
    /\ ~probe.solver.threw
    /\ probe' = [fn |-> "run", stage |-> "running", rhs |-> probe.rhs,
                 t0 |-> probe.t0, t_max |-> probe.t_max, solver |-> probe.solver,
                 run |-> AdaptiveEnter(probe.solver, <<One>>, probe.t0),
                 iterations |-> 0, error_norm |-> Zero,
                 errors |-> <<>>, steps |-> <<>>, exact |-> TRUE]
    /\ UNCHANGED mvars

\* one pass through the loop body
RunIterate ==
    /\ probe.fn = "run"
    /\ probe.stage = "running"
    /\ Lt(probe.run.t, probe.t_max)
    /\ probe.iterations < MaxRunIterations
    /\ \E next \in {AdaptiveBody(probe.solver, probe.rhs, probe.run)},
          pair \in {step(probe.rhs, probe.run.t, probe.run.y, probe.run.h)} :
          \E error_norm \in {compute_norm(VecSub(pair.y_full, pair.y_half))} :
             LET accepted == Len(next.path) > Len(probe.run.path)
             IN  probe' = [probe EXCEPT
                             !.run = next,
                             !.iterations = @ + 1,
                             !.error_norm = error_norm,
                             !.errors = IF accepted THEN Append(@, error_norm) ELSE @,
                             !.steps = IF accepted THEN Append(@, probe.run.h) ELSE @,
                             !.exact = @ /\ (accepted =>
                                              ExactAdd(probe.run.t, probe.run.h))]
    /\ UNCHANGED mvars

\* the loop condition fails: return path
RunReturn ==
    /\ probe.fn = "run"
    /\ probe.stage = "running"
    /\ ~Lt(probe.run.t, probe.t_max)
    /\ probe' = [probe EXCEPT !.stage = "returned"]
    /\ UNCHANGED mvars

NextRun ==
    \/ RunEnter
    \/ RunIterate
    \/ RunReturn

SpecRun == InitRun /\ [][NextRun]_vars

\* ------------------------------------------------------------------------
\* interface/hooks/useWebSocket.ts: one instance of the hook.  sockets[k] is
\* the readyState of the k-th WebSocket created, timers the pending
\* setTimeout(connect) handles, wsRef / reconnectTimeoutRef /
\* reconnectAttemptsRef the refs (0 for null); disconnected and
\* sockets_at_disconnect are history.  onerror and onmessage do not touch
\* this state.
\* ------------------------------------------------------------------------

InitHook ==
    /\ Constructed
    /\ \E maxReconnectAttempts \in ReconnectAttemptInputs :
          probe = [fn |-> "useWebSocket", maxReconnectAttempts |-> maxReconnectAttempts,
                   sockets |-> <<>>, wsRef |-> 0,
                   timers |-> {}, timers_set |-> 0, reconnectTimeoutRef |-> 0,
                   reconnectAttemptsRef |-> 0, isConnected |-> FALSE,
                   disconnected |-> FALSE, sockets_at_disconnect |-> 0]

\* the hook state after connect() ran on state h
connect(h) ==
    IF h.wsRef # 0 /\ h.sockets[h.wsRef] = "OPEN" THEN h
    ELSE [h EXCEPT !.sockets = Append(@, "CONNECTING"),
                   !.wsRef = Len(h.sockets) + 1]

\* the hook state after the onclose handler of a socket ran on state h
onclose(h) ==
    IF h.reconnectAttemptsRef < h.maxReconnectAttempts
    THEN [h EXCEPT !.isConnected = FALSE,
                   !.reconnectAttemptsRef = @ + 1,
                   !.timers = @ \cup {h.timers_set + 1},
                   !.timers_set = @ + 1,
                   !.reconnectTimeoutRef = h.timers_set + 1]
    ELSE [h EXCEPT !.isConnected = FALSE]

\* the hook state after disconnect() ran on state h
disconnect(h) ==
    [h EXCEPT !.timers = IF h.reconnectTimeoutRef # 0
                         THEN @ \ {h.reconnectTimeoutRef} ELSE @,
              !.reconnectTimeoutRef = 0,
              !.sockets = IF h.wsRef # 0 /\ @[h.wsRef] \in {"CONNECTING", "OPEN"}
                          THEN [@ EXCEPT ![h.wsRef] = "CLOSING"] ELSE @,
              !.wsRef = 0,
              !.isConnected = FALSE]

\* the component calls connect() (the effect on mount, or the caller),
\* before any disconnect()
CallerConnect ==
    /\ probe.fn = "useWebSocket"
    /\ ~probe.disconnected
    /\ Len(probe.sockets) < MaxSockets
    /\ probe' = connect(probe)
    /\ UNCHANGED mvars

\* a connecting socket opens: ws.onopen
SocketOpens(k) ==
    /\ probe.fn = "useWebSocket"
    /\ probe.sockets[k] = "CONNECTING"
    /\ probe' = [probe EXCEPT !.sockets[k] = "OPEN",
                              !.isConnected = TRUE,
                              !.reconnectAttemptsRef = 0]
    /\ UNCHANGED mvars

\* a socket reaches CLOSED (the connection failed or was lost, or close()
\* completed): ws.onclose
SocketCloses(k) ==
    /\ probe.fn = "useWebSocket"
    /\ probe.sockets[k] \in {"CONNECTING", "OPEN", "CLOSING"}
    /\ probe' = onclose([probe EXCEPT !.sockets[k] = "CLOSED"])
    /\ UNCHANGED mvars

\* a pending reconnect timer fires: connect()
TimerFires(id) ==
    /\ probe.fn = "useWebSocket"
    /\ id \in probe.timers
    /\ Len(probe.sockets) < MaxSockets
    /\ probe' = connect([probe EXCEPT !.timers = @ \ {id}])
    /\ UNCHANGED mvars

\* the caller calls disconnect()
CallerDisconnect ==
    /\ probe.fn = "useWebSocket"
    /\ probe' = [disconnect(probe) EXCEPT
                    !.disconnected = TRUE,
                    !.sockets_at_disconnect = Len(probe.sockets)]
    /\ UNCHANGED mvars

NextHook ==
    \/ CallerConnect
    \/ \E k \in 1..Len(probe.sockets) : SocketOpens(k)
    \/ \E k \in 1..Len(probe.sockets) : SocketCloses(k)
    \/ \E id \in probe.timers : TimerFires(id)
    \/ CallerDisconnect

SpecHook == InitHook /\ [][NextHook]_vars

\* ------------------------------------------------------------------------
\* properties
\* ------------------------------------------------------------------------

ChainOps ==
    {"compute_christoffel_symbols", "compute_riemann_tensor", "compute_ricci_tensor",
     "compute_ricci_scalar", "detect_singularities"}

flags == <<christoffel_valid_, riemann_valid_, ricci_valid_>>

FlagsInvalid == ~christoffel_valid_ /\ ~riemann_valid_ /\ ~ricci_valid_

\* what one call may do to the validity flags
FlagStep ==
    /\ ret'.op = "update_metric" => FlagsInvalid'
    /\ (ret'.op = "compute_christoffel_symbols" /\ ~ret'.threw) => christoffel_valid_'
    /\ (ret'.op = "compute_riemann_tensor" /\ ~ret'.threw) => riemann_valid_'
    /\ (ret'.op = "compute_ricci_tensor" /\ ~ret'.threw) => ricci_valid_'
    /\ ret'.op # "update_metric" =>
          /\ christoffel_valid_ => christoffel_valid_'
          /\ riemann_valid_ => riemann_valid_'
          /\ ricci_valid_ => ricci_valid_'
    /\ (ret'.op \notin ChainOps \cup {"update_metric"} \/ ret'.threw) => UNCHANGED flags

\* C1: after construction the three validity flags are false; a successful
\* compute_christoffel_symbols, compute_riemann_tensor or compute_ricci_tensor
\* leaves its own flag true; update_metric leaves all three false from any
\* state; a flag goes from true to false only in update_metric and from false
\* to true only in a call of the compute chain that does not throw.
C1_FlagStateMachine == FlagsInvalid /\ [][FlagStep]_vars

\* an update has invalidated Christoffel symbols that were computed before it
C1_Witness ==
    /\ ret.op = "update_metric"
    /\ FlagsInvalid
    /\ christoffel_ # ZeroTensor(64)

\* the three tensors the code derives from metric m, when m can be inverted
Derived(m) ==
    Eval(invert_matrix(m), LAMBDA g_inv :
        IF g_inv.threw THEN [threw |-> TRUE]
        ELSE Eval(ChristoffelFrom(g_inv.inv, m), LAMBDA gamma :
             Eval(RiemannFrom(gamma), LAMBDA riem :
                [threw |-> FALSE, christoffel |-> gamma, riemann |-> riem,
                 ricci |-> RicciFrom(riem)])))

\* C2: in every reachable state, a tensor whose validity flag is true equals
\* the tensor derived from the current metric.
C2_CacheCoherence ==
    (christoffel_valid_ \/ riemann_valid_ \/ ricci_valid_) =>
        \E d \in {Derived(metric_)} :
            /\ ~d.threw
            /\ christoffel_valid_ => christoffel_ = d.christoffel
            /\ riemann_valid_ => riemann_ = d.riemann
            /\ ricci_valid_ => ricci_ = d.ricci

\* all three tensors are valid for a metric that is not the default one, after
\* symbols of another metric had been cached
C2_Witness ==
    /\ christoffel_valid_ /\ riemann_valid_ /\ ricci_valid_
    /\ metric_ # FlatMetric
    /\ christoffel_ # ZeroTensor(64)

\* C3: the Christoffel symbols read by GeodesicSolver::solve through
\* manifold.christoffel() are never read while christoffel_valid_ is false.
C3_NoReadWhileInvalid == ret.op = "solve" => ret.gamma_valid

\* C4: between two updates each derived quantity is computed at most once,
\* and none is computed before a call that needs it.
C4_AtMostOnce ==
    /\ computed.christoffel <= 1 /\ computed.riemann <= 1
    /\ computed.ricci <= 1 /\ computed.scalar <= 1
    /\ computed.christoffel > 0 => requested >= 1
    /\ computed.riemann > 0 => requested >= 2
    /\ computed.ricci > 0 => requested >= 3
    /\ computed.scalar > 0 => requested >= 4

\* C5: for the flat metric compute_christoffel_symbols returns 64 zeros.
C5_FlatChristoffelZero ==
    (metric_ = FlatMetric /\ ret.op = "compute_christoffel_symbols" /\ ~ret.threw) =>
        ret.value = ZeroTensor(64)

\* C6: update_metric with zero density and zero flow leaves the flat metric;
\* for the flat metric compute_riemann_tensor returns 256 zeros and
\* compute_ricci_scalar returns 0.
C6_ZeroInputZeroCurvature ==
    /\ last_update = <<Density(Zero), FlowZero>> => metric_ = FlatMetric
    /\ (metric_ = FlatMetric /\ ret.op = "compute_riemann_tensor") =>
          ~ret.threw /\ ret.value = ZeroTensor(256)
    /\ (metric_ = FlatMetric /\ ret.op = "compute_ricci_scalar") =>
          ~ret.threw /\ ret.value = Zero

\* the scalar was requested after an update with zero density and zero flow
C6_Witness ==
    /\ last_update = <<Density(Zero), FlowZero>>
    /\ ret.op = "compute_ricci_scalar"
    /\ riemann_valid_ /\ riemann_ = ZeroTensor(256)
    /\ ret.value = Zero

\* this manifold after update_metric(HighDensity, flow_field)
AfterHighDensity(flow_field) ==
    [Self EXCEPT !.metric_ = UpdatedMetric(metric_, HighDensity, flow_field),
                 !.christoffel_valid_ = FALSE,
                 !.riemann_valid_ = FALSE,
                 !.ricci_valid_ = FALSE]

\* C7: for density (1e6, 0, 0, 0) some non-zero flow field makes
\* compute_ricci_scalar return a value of magnitude above 0.95 and
\* detect_singularities return a non-empty list.
C7_HighCurvatureReached ==
    \E flow_field \in FlowInputs \ {FlowZero} :
        \E r \in {detect_singularities(AfterHighDensity(flow_field))} :
            /\ ~r.threw
            /\ ExceedsThreshold(r.R)
            /\ r.value # <<>>

\* |R| > 0.95, decided on the decimal digits of R
Above095(R) == R.e >= -4 /\ IAbs(R.m) * Pow10[R.e + 4] > 9500

\* C8: for the Ricci scalar R it is given, detect_singularities returns one
\* event when |R| > 0.95 and none when |R| <= 0.95, never more than one.
C8_ThresholdFunction ==
    (probe.fn = "detect" /\ probe.done) =>
        /\ Len(probe.out.value) <= 1
        /\ Above095(probe.R) => probe.out.value = <<Origin>>
        /\ ~Above095(probe.R) => probe.out.value = <<>>

\* the boundary value 0.95 was tested and gave no event
C8_Witness ==
    /\ probe.fn = "detect" /\ probe.done
    /\ probe.R = SINGULARITY_THRESHOLD
    /\ probe.out.value = <<>>

NonInvertible(m) == determinant_4x4(m) = Zero

\* a call of the compute chain on a manifold whose metric has determinant zero
SingularFailure ==
    (NonInvertible(metric_) /\ ret'.op \in ChainOps) =>
        /\ ret'.threw
        /\ UNCHANGED manifold
        /\ FlagsInvalid'

\* C9: while the metric is non-invertible every call of the compute chain
\* throws, leaves the metric and the cached tensors as they were and leaves
\* all validity flags false, however often it is repeated.
C9_SingularMetricFails == [][SingularFailure]_vars

\* detect_singularities threw on a non-invertible metric while symbols of an
\* earlier metric were still cached
C9_Witness ==
    /\ NonInvertible(metric_)
    /\ ret.op = "detect_singularities" /\ ret.threw
    /\ christoffel_ # ZeroTensor(64)
    /\ FlagsInvalid

BelowEpsilon(a) == a.m = 0 \/ Lt(FAbs(a), Flt(1, -10))

\* one elimination step: the row taken and whether the step throws
PivotStep ==
    (probe.fn = "invert_matrix_4x4" /\ probe.status = "running" /\ probe.i < 4) =>
        LET i == probe.i
            p == probe'.pivot
        IN  /\ p \in i..3
            /\ \A r \in i..3 :
                  Le(FAbs(probe.result[r * 4 + i]), FAbs(probe.result[p * 4 + i]))
            /\ probe'.status = "threw" <=> BelowEpsilon(probe.result[p * 4 + i])
            /\ (\E r \in i..3 : ~BelowEpsilon(probe.result[r * 4 + i])) =>
                  probe'.status = "running"

\* C10: at step i invert_matrix_4x4 takes a row r >= i with the largest
\* magnitude in column i and throws if and only if that magnitude is below
\* 1e-10; the all-zero matrix throws, and a zero diagonal entry does not
\* throw when a lower row has a usable pivot.
C10_PartialPivoting ==
    /\ []((probe.fn = "invert_matrix_4x4" /\ probe.m = ZeroTensor(16)
             /\ probe.status # "running") => probe.status = "threw")
    /\ [][PivotStep]_vars

\* a matrix with a zero in its first diagonal entry was inverted
C10_Witness ==
    /\ probe.fn = "invert_matrix_4x4"
    /\ probe.status = "returned"
    /\ probe.m[0] = Zero

\* entrywise |a - b| <= tol * max(1, largest |b| entry)
Largest(t) ==
    CHOOSE a \in {FAbs(t[x]) : x \in DOMAIN t} : \A y \in DOMAIN t : Le(FAbs(t[y]), a)

CloseTo(a, b, tol) ==
    LET scale == IF Gt(Largest(b), One) THEN Largest(b) ELSE One
    IN  \A x \in DOMAIN b : Le(FAbs(Sub(a[x], b[x])), Mul(tol, scale))

\* C11: for every matrix M that invert_matrix_4x4 inverts, with M times the
\* inverse equal to the identity, the inverse of the inverse is M within
\* tolerance.
C11_InverseRoundTrip ==
    (probe.fn = "round_trip" /\ probe.stage = 2 /\ probe.product = Identity4) =>
        /\ ~probe.second.threw
        /\ CloseTo(probe.second.inv, probe.m, Flt(1, -2))

Positive(a) == a.m > 0

TimeDirection == [i \in Idx4 |-> IF i = 0 THEN One ELSE Zero]

\* a path whose spatial coordinates are those of start and whose time
\* coordinate grows by the same amount from each sample to the next
StraightInTime(points, start) ==
    /\ \A k \in 1..Len(points) : points[k].spatial = start.spatial
    /\ \A k \in 1..(Len(points) - 1) :
          Sub(points[k + 1].t, points[k].t) = Sub(points[2].t, points[1].t)

\* C12: on a manifold holding the flat metric, whether or not its Christoffel
\* symbols have been computed, GeodesicSolver::solve with initial velocity
\* (1,0,0,0) and a positive step returns a path with constant spatial
\* coordinates and equal time increments.
C12_FlatGeodesicStraight ==
    (probe.fn = "solve" /\ probe.stage = "returned" /\ metric_ = FlatMetric
        /\ probe.initial_direction = TimeDirection /\ Positive(probe.step_size))
    => StraightInTime(probe.points, StartPoint)

\* C13: when AdaptiveRK4Solver::solve terminates with tolerance eps and with
\* tolerance eps / 10 on the same problem, the path for eps / 10 has at least
\* as many samples as the path for eps.
C13_ToleranceMonotone ==
    (probe.fn = "adaptive" /\ probe.stage = "returned") =>
        Len(probe.tight_run.path) >= Len(probe.loose_run.path)

Interpolated == probe.fn = "interpolate" /\ probe.stage = "interpolated"

\* C14: interpolate throws on a path without samples; on a path with samples
\* it returns the first sample at parameter 0 and the last sample at every
\* parameter at or beyond the end of the range.
C14_InterpolateBoundaries ==
    Interpolated =>
        LET points == probe.path.points
        IN  /\ Len(points) = 0 => probe.out.threw
            /\ Len(points) > 0 =>
                  /\ ~probe.out.threw
                  /\ probe.lambda = Zero => probe.out.value = points[1]
                  /\ ~Lt(probe.lambda, probe.path.total_parameter) =>
                        probe.out.value = points[Len(points)]

\* a path of four different samples was interpolated beyond its end
C14_Witness ==
    /\ Interpolated
    /\ Len(probe.path.points) = 4
    /\ probe.path.points[3] # probe.path.points[4]
    /\ Gt(probe.lambda, probe.path.total_parameter)
    /\ ~probe.out.threw
    /\ probe.out.value = probe.path.points[4]

\* C15: on a path returned by GeodesicSolver::solve for a positive range and
\* step h, interpolate at k * h, the parameter at which sample k was
\* recorded, returns sample k.
C15_InterpolateAtSamples ==
    (Interpolated /\ Positive(probe.parameter_range)) =>
        \A k \in 0..(Len(probe.path.points) - 1) :
            probe.lambda = Mul(Flt(k, 0), probe.step_size) =>
                /\ ~probe.out.threw
                /\ probe.out.value = probe.path.points[k + 1]

\* C16: the path GeodesicSolver::solve returns is never empty and its first
\* sample is the initial point, for every parameter range.
C16_PathNeverEmpty ==
    (probe.fn = "solve" /\ probe.stage = "returned") =>
        /\ Len(probe.points) >= 1
        /\ probe.points[1] = StartPoint

\* C17: GeodesicSolver::solve with step_size <= 0 runs no iteration and
\* returns no path.
C17_NonPositiveStepRejected ==
    (probe.fn = "solve" /\ probe.stage \in {"running", "returned"}
        /\ ~Positive(probe.step_size)) =>
        /\ probe.iterations = 0
        /\ probe.stage # "returned"

\* | |g(u, u)| - 1 | <= 0.01
UnitNorm(metric, u) ==
    Le(FAbs(Sub(FAbs(NormSum(metric, u, 0, Zero)), One)), Flt(1, -2))

\* C18: the 4-velocity with which the integration starts has |g(u', u')| = 1
\* under the current metric, in GeodesicSolver::solve and in
\* solvers::GeodesicSolver::solve_geodesic.
C18_NormalizedBeforeIntegrating ==
    (probe.fn = "solve" /\ probe.stage \in {"running", "returned", "geodesic_returned"}) =>
        UnitNorm(metric_, probe.initial_velocity)

\* an event of the returned list holds the radius r_s computed from R
CarriesRadius(event, R) ==
    \E i \in 1..Len(event) : event[i] = SchwarzschildRadius(R)

C20_KernelMatchesReference ==
    (probe.fn = "kernel" /\ probe.stage \in {"threw", "copied"}) =>
        /\ probe.stage = "copied"
        /\ probe.h_riemann = RiemannFrom(probe.h_gamma)

\* a as an integer multiple of 10^e
Scaled(a, e) == a.m * Pow10[a.e - e]

MinExp(a, b, c) ==
    LET ab == IF a.e <= b.e THEN a.e ELSE b.e
    IN  IF ab <= c.e THEN ab ELSE c.e

\* ceil((t_max - t0) / dt) in exact arithmetic
CeilSteps(t0, t_max, dt) ==
    LET e == MinExp(t0, t_max, dt)
        num == Scaled(t_max, e) - Scaled(t0, e)
        den == Scaled(dt, e)
    IN  (num + den - 1) \div den

\* the samples of a returned path: first at t0, strictly increasing, every
\* step dt except a shorter last one, none beyond t_max, the last at t_max
ClampedSampling(path, t0, t_max, dt) ==
    /\ path[1].t = t0
    /\ \A k \in 1..(Len(path) - 1) : Lt(path[k].t, path[k + 1].t)
    /\ \A k \in 1..(Len(path) - 2) : Sub(path[k + 1].t, path[k].t) = dt
    /\ Le(Sub(path[Len(path)].t, path[Len(path) - 1].t), dt)
    /\ \A k \in 1..Len(path) : Le(path[k].t, t_max)
    /\ path[Len(path)].t = t_max

\* RK4Solver::solve has been entered with dt > 0 and t_max > t0
Rk4Entered ==
    /\ probe.fn = "rk4"
    /\ probe.stage \in {"running", "returned"}
    /\ Lt(probe.t0, probe.t_max)

RunStepRule ==
    (probe.fn = "run" /\ probe.stage = "running" /\ probe'.stage = "running"
        /\ probe'.iterations = probe.iterations + 1) =>
        LET run == probe.run
            after == probe'.run
            pair == step(probe.rhs, run.t, run.y, run.h)
            error_norm == compute_norm(VecSub(pair.y_full, pair.y_half))
        IN  /\ probe'.error_norm = error_norm
            /\ Lt(error_norm, probe.solver.tolerance_) =>
                  /\ after.y = pair.y_full
                  /\ after.t = Add(run.t, run.h)
                  /\ after.path = Append(run.path, [t |-> after.t, y |-> after.y])
                  /\ after.h = FMin(Mul(run.h, Flt(15, -1)), probe.solver.max_dt_)
            /\ ~Lt(error_norm, probe.solver.tolerance_) =>
                  /\ after.y = run.y
                  /\ after.t = run.t
                  /\ after.path = run.path
                  /\ after.h = FMax(Mul(run.h, Half), probe.solver.min_dt_)

\* every sample after the first entered the path with an error estimate
\* below the tolerance
SamplesWereAccepted ==
    (probe.fn = "run" /\ probe.stage \in {"running", "returned"}) =>
        /\ Len(probe.errors) = Len(probe.run.path) - 1
        /\ \A k \in 1..Len(probe.errors) : Lt(probe.errors[k], probe.solver.tolerance_)

\* C22: an iteration of AdaptiveRK4Solver::solve accepts exactly when
\* |y_full - y_half| < tolerance; accepting sets the state to y_full, does
\* t += h, appends one sample and sets h to min(1.5 h, max_dt); rejecting
\* leaves t, y and the path alone and sets h to max(0.5 h, min_dt); so every
\* sample after the first was accepted with an error below the tolerance.
C22_AdaptiveStepRule == [][RunStepRule]_vars /\ []SamplesWereAccepted

\* a run in which a step was rejected and, later, a step was accepted
C22_Witness ==
    /\ probe.fn = "run" /\ probe.stage = "running"
    /\ Len(probe.errors) >= 1
    /\ probe.iterations > Len(probe.errors)
    /\ Lt(probe.error_norm, probe.solver.tolerance_)
    /\ Lt(probe.steps[Len(probe.steps)], probe.solver.dt_)

\* the run is in its loop with h = min_dt > 0 and the error estimate of the
\* step it is about to try is not below the tolerance
StuckAtFloor ==
    /\ probe.fn = "run"
    /\ probe.stage = "running"
    /\ Lt(probe.run.t, probe.t_max)
    /\ Positive(probe.solver.min_dt_)
    /\ probe.run.h = probe.solver.min_dt_
    /\ LET pair == step(probe.rhs, probe.run.t, probe.run.y, probe.run.h)
       IN  ~Lt(compute_norm(VecSub(pair.y_full, pair.y_half)), probe.solver.tolerance_)

\* C23: once h = min_dt and the error estimate at the current point is not
\* below the tolerance, every further iteration of AdaptiveRK4Solver::solve
\* rejects and leaves t, y, h and the path as they are (and so is in the same
\* situation again): the loop is never left and nothing is thrown.
C23_RejectsForever ==
    [][StuckAtFloor =>
          /\ probe'.stage = "running"
          /\ probe'.run = probe.run
          /\ probe'.solver = probe.solver
          /\ probe'.rhs = probe.rhs
          /\ probe'.t_max = probe.t_max]_vars

\* a run that halved its step down to min_dt and has since rejected twice more
C23_Witness ==
    /\ StuckAtFloor
    /\ Lt(probe.solver.min_dt_, probe.solver.dt_)
    /\ ~Lt(probe.error_norm, probe.solver.tolerance_)
    /\ probe.iterations >= 4

\* AdaptiveRK4Solver::solve was entered with 0 < min_dt <= dt <= max_dt and
\* t_max > t0
RunOrdered ==
    /\ probe.fn = "run"
    /\ probe.stage \in {"running", "returned"}
    /\ Positive(probe.solver.min_dt_)
    /\ Le(probe.solver.min_dt_, probe.solver.dt_)
    /\ Le(probe.solver.dt_, probe.solver.max_dt_)
    /\ Lt(probe.t0, probe.t_max)

\* min_dt <= h <= max_dt
StepWithinBounds ==
    /\ Le(probe.solver.min_dt_, probe.run.h)
    /\ Le(probe.run.h, probe.solver.max_dt_)

\* the samples of a returned path: strictly increasing, all but the last
\* below t_max, the last at or beyond t_max by less than the last step
OvershootSampling ==
    LET path == probe.run.path
        n == Len(path)
    IN  /\ \A k \in 1..(n - 1) : Lt(path[k].t, path[k + 1].t)
        /\ \A k \in 1..(n - 1) : Lt(path[k].t, probe.t_max)
        /\ Le(probe.t_max, path[n].t)
        /\ n >= 2
        /\ Lt(Sub(path[n].t, probe.t_max), probe.steps[n - 1])

C24_NoCrossLaneDependence ==
    (probe.fn = "kernel" /\ probe.stage = "synced") =>
        LET rho == probe.block \div 16
            mu == probe.block % 4
        IN  \A nu \in Idx4, lambda \in Idx4 :
                /\ probe.shared.s_gamma_rho_mu[lambda]
                       = probe.d_gamma_[rho * 16 + mu * 4 + lambda]
                /\ probe.shared.s_gamma_rho_nu[lambda]
                       = probe.d_gamma_[rho * 16 + nu * 4 + lambda]

Symmetric(m) == \A i \in Idx4, j \in Idx4 : m[i * 4 + j] = m[j * 4 + i]

\* C25: the metric is symmetric in every reachable state, and once
\* update_metric(d, f) has been called it is the tensor those arguments give
\* whatever the metric was before, so a repeated call changes nothing.
C25_MetricReplacedWholesale ==
    /\ Symmetric(metric_)
    /\ last_update # <<>> =>
          /\ metric_ = UpdatedMetric(ZeroTensor(16), last_update[1], last_update[2])
          /\ metric_ = UpdatedMetric(metric_, last_update[1], last_update[2])

\* the metric was replaced, after tensors had been derived from an earlier
\* one, by a metric with off-diagonal entries
C25_Witness ==
    /\ ret.op = "update_metric"
    /\ last_update = <<HighDensity, FlowLight>>
    /\ metric_[1] # Zero
    /\ metric_[4] = metric_[1]
    /\ christoffel_ # ZeroTensor(64)

\* C26: only update_metric changes the metric; a geodesic integration
\* changes no member of the manifold at all.
C26_ReadsLeaveMetric ==
    [][/\ ret'.op # "update_metric" => metric_' = metric_
       /\ ret'.op = "solve" => UNCHANGED manifold]_vars

\* detect_singularities has filled the caches of a manifold whose metric is
\* not the constructor's
C26_Witness ==
    /\ ret.op = "detect_singularities"
    /\ ~ret.threw
    /\ christoffel_valid_ /\ riemann_valid_ /\ ricci_valid_
    /\ metric_ # FlatMetric

\* C27: ricci_valid_ implies riemann_valid_ and riemann_valid_ implies
\* christoffel_valid_ in every reachable state.
C27_FlagsOrdered ==
    /\ ricci_valid_ => riemann_valid_
    /\ riemann_valid_ => christoffel_valid_

\* compute_ricci_tensor has failed on a singular metric
C27_Witness ==
    /\ ret.op = "compute_ricci_tensor"
    /\ ret.threw
    /\ ~ricci_valid_ /\ ~riemann_valid_ /\ ~christoffel_valid_

\* Gamma^k_00 = 0.005 g^k0 and every other component is zero
OnlyTimeTimeComponents(gamma, g_inv) ==
    \A x \in 0..63 :
        gamma[x] = IF (x \div 4) % 4 = 0 /\ x % 4 = 0
                   THEN Mul(Flt(5, -3), g_inv[(x \div 16) * 4])
                   ELSE Zero

C30_DisconnectFinal ==
    (probe.fn = "useWebSocket" /\ probe.disconnected) =>
        /\ probe.timers = {}
        /\ Len(probe.sockets) = probe.sockets_at_disconnect

====
